---- MODULE Spec2Model ----
(***************************************************************************)
(* Model of the PAN ingestion core of pv-pan-tool:                         *)
(*   - the format decoder      (parser.py, parse_pan_structure)            *)
(*   - the change-tracking registry (parser.py, get_new_files,             *)
(*     update_registry, parse_file)                                        *)
(*   - the module repository   (database.py, insert_module, update_module, *)
(*     search_modules, get_statistics, clear_database)                     *)
(*                                                                         *)
(* Text is modelled as sequences of tokens.  A token stands for a run of   *)
(* characters that the code never looks inside: the 9 characters           *)
(* "PVObject_", the 15 characters "End of PVObject", the single characters *)
(* "=", "," and " ", and atoms of other text.  A string is a sequence of   *)
(* tokens, so strip and split are computed, not assumed.                   *)
(*                                                                         *)
(* Values are tagged records: a Python value carries k ("none", "num",     *)
(* "str", "list", "dict"), an SQL value carries t ("null", "real",         *)
(* "text").  A real is the fraction n/d, so the derived metrics are exact. *)
(***************************************************************************)
EXTENDS Integers, Sequences, FiniteSets, TLC

\* ------------------------------------------------------------------ bounds
MaxLines == 3

\* =====================================================================
\* Format decoder: PANFileParser.parse_pan_structure
\* =====================================================================
PFX == "PVObject_"
ENDMARK == "End of PVObject"
EQ == "="
COMMA == ","
SP == " "
TYPEKEY == <<"__type__">>

\* str.strip(): leading and trailing blanks removed
RECURSIVE LStrip(_)
LStrip(s) == IF s # <<>> /\ Head(s) = SP THEN LStrip(Tail(s)) ELSE s

RECURSIVE RStrip(_)
RStrip(s) == IF s # <<>> /\ s[Len(s)] = SP THEN RStrip(SubSeq(s, 1, Len(s) - 1)) ELSE s

Strip(s) == RStrip(LStrip(s))

Contains(s, tok) == \E i \in 1..Len(s) : s[i] = tok

FirstIndex(s, tok) == CHOOSE i \in 1..Len(s) : s[i] = tok /\ \A j \in 1..(i - 1) : s[j] # tok

\* str.split(sep, 1): at most two parts, cut at the first sep
Split1(s, sep) ==
    IF Contains(s, sep)
    THEN <<SubSeq(s, 1, FirstIndex(s, sep) - 1), SubSeq(s, FirstIndex(s, sep) + 1, Len(s))>>
    ELSE <<s>>

\* str.split(sep): cut at every sep
RECURSIVE SplitAll(_, _)
SplitAll(s, sep) ==
    IF Contains(s, sep)
    THEN <<SubSeq(s, 1, FirstIndex(s, sep) - 1)>>
         \o SplitAll(SubSeq(s, FirstIndex(s, sep) + 1, Len(s)), sep)
    ELSE <<s>>

StartsWith(s, tok) == s # <<>> /\ Head(s) = tok

\* Nodes of the decoded tree.  A dict is a function from keys (strings) to nodes.
StrNode(s) == [k |-> "str", v |-> s]
ListNode(l) == [k |-> "list", v |-> l]
DictNode(d) == [k |-> "dict", v |-> d]
EmptyDict == [x \in {} |-> {}]

\* Faulty variant of DictSet: a key that is already there keeps its value.
DictSetKeepFirst(d, key, node) ==
    [x \in (DOMAIN d) \cup {key} |-> IF x \in DOMAIN d THEN d[x] ELSE node]

\* d[key] = node on a Python dict
DictSet(d, key, node) == [x \in (DOMAIN d) \cup {key} |-> IF x = key THEN node ELSE d[x]]

\* the dict reached from the root by following the keys of path
RECURSIVE DictAt(_, _)
DictAt(root, path) == IF path = <<>> THEN root ELSE DictAt(root[Head(path)].v, Tail(path))

\* the root after  current[key] = node,  current being the dict at path
RECURSIVE SetAt(_, _, _, _)
SetAt(root, path, key, node) ==
    IF path = <<>>
    THEN DictSet(root, key, node)
    ELSE DictSet(root, Head(path), DictNode(SetAt(root[Head(path)].v, Tail(path), key, node)))

\* parser.py:281  if len(parts) < 2: continue
OpenLineSkipped(parts) == Len(parts) < 2

\* Faulty variant of EndMarkerPops: the guard on the stack is dropped.
EndMarkerPopsUnguarded(stack) == TRUE

\* parser.py:293  if stack:
EndMarkerPops(stack) == stack # <<>>

\* parser.py:297  elif '=' in stripped:
IsKeyValueLine(stripped) == Contains(stripped, EQ)

\* parser.py:301-304  the node stored for a value
ValueNode(value) ==
    IF Contains(value, COMMA)
    THEN ListNode([i \in 1..Len(SplitAll(value, COMMA)) |-> Strip(SplitAll(value, COMMA)[i])])
    ELSE StrNode(value)

\* The decoder's loop state: the root dict, the stack of enclosing dicts and the
\* current dict (dicts are named by their path from the root), and the exception
\* raised so far ("none" when none).
DecStart == [root |-> EmptyDict, stack |-> <<>>, cur |-> <<>>, exc |-> "none"]

\* parser.py:273-304: one iteration of the loop over the lines
DecLine(st, line) ==
    LET stripped == Strip(line) IN
    IF st.exc # "none" THEN st
    ELSE IF stripped = <<>> THEN st
    ELSE IF StartsWith(stripped, PFX) THEN
        LET parts == Split1(stripped, EQ) IN
        IF OpenLineSkipped(parts) THEN st
        ELSE IF Len(parts) < 2 THEN [st EXCEPT !.exc = "IndexError"]
        ELSE LET obj_name == Tail(parts[1])
                 obj_type == parts[2]
             IN [st EXCEPT
                   !.root = SetAt(st.root, st.cur, obj_name,
                                  DictNode(DictSet(EmptyDict, TYPEKEY, StrNode(obj_type)))),
                   !.stack = Append(st.stack, st.cur),
                   !.cur = Append(st.cur, obj_name)]
    ELSE IF StartsWith(stripped, ENDMARK) THEN
        IF EndMarkerPops(st.stack)
        THEN IF st.stack = <<>>
             THEN [st EXCEPT !.exc = "IndexError"]
             ELSE [st EXCEPT !.cur = st.stack[Len(st.stack)],
                             !.stack = SubSeq(st.stack, 1, Len(st.stack) - 1)]
        ELSE st
    ELSE IF IsKeyValueLine(stripped) THEN
        LET parts == Split1(stripped, EQ) IN
        IF Len(parts) # 2 THEN [st EXCEPT !.exc = "ValueError"]
        ELSE LET key == Strip(parts[1])
                 value == Strip(parts[2])
             IN [st EXCEPT !.root = SetAt(st.root, st.cur, key, ValueNode(value))]
    ELSE st

RECURSIVE DecLines(_, _)
DecLines(st, lines) ==
    IF lines = <<>> THEN st ELSE DecLines(DecLine(st, Head(lines)), Tail(lines))

\* parser.py:266-306
ParsePanStructure(lines) ==
    LET fin == DecLines(DecStart, lines) IN
    IF fin.exc # "none"
    THEN [raised |-> fin.exc, tree |-> EmptyDict, cur |-> fin.cur, stack |-> fin.stack]
    ELSE [raised |-> "none", tree |-> fin.root, cur |-> fin.cur, stack |-> fin.stack]

\* ------------------------------------------------------------ decoder inputs
LinePool ==
    { <<PFX, "A", EQ, "T">>,              \* PVObject_A=T
      <<PFX, "B", EQ, "T">>,              \* PVObject_B=T
      <<PFX, "A">>,                       \* PVObject_A      (block open without '=')
      <<SP, PFX, EQ, "T", SP>>,           \*  PVObject_=T    (empty name, blanks around)
      <<ENDMARK, SP, "A">>,               \* End of PVObject A
      <<ENDMARK, EQ, "x">>,               \* End of PVObject=x
      <<"K", EQ, "v">>,                   \* K=v
      <<"K", SP, EQ, SP, "w", EQ, "z">>,  \* K = w=z         (second '=' stays in the value)
      <<"A", EQ, "1", COMMA, SP, "2">>,   \* A=1, 2          (list)
      <<"K", EQ>>,                        \* K=              (empty value)
      <<"junk">>,                         \* junk            (no '=')
      <<SP, SP>>                          \* blank line
    }

RECURSIVE SeqsUpTo(_, _)
SeqsUpTo(S, n) ==
    IF n = 0 THEN {<<>>}
    ELSE LET shorter == SeqsUpTo(S, n - 1) IN
         shorter \cup {Append(s, x) : s \in {t \in shorter : Len(t) = n - 1}, x \in S}

\* =====================================================================
\* Files, contents and fingerprints
\* =====================================================================
\* Paths relative to base_directory, as their parts.
P1 == <<"Acme", "M1", "a.pan">>
P2 == <<"Acme", "b.pan">>
Paths == {P1, P2}

\* The paths a directory can hold, in the order of sorted() (parser.py:190)
BatchPaths ==
    << P1,
       <<"Acme", "M2", "a.pan">>, <<"Acme", "M3", "a.pan">>, <<"Acme", "M4", "a.pan">>,
       <<"Acme", "M5", "a.pan">>, <<"Acme", "M6", "a.pan">>, <<"Acme", "M7", "a.pan">>,
       <<"Acme", "M8", "a.pan">>, <<"Acme", "M9", "a.pan">>, <<"Acme", "N1", "a.pan">>,
       <<"Acme", "N2", "a.pan">>, <<"Acme", "N3", "a.pan">>, <<"Acme", "N4", "a.pan">>,
       <<"Acme", "N5", "a.pan">> >>

AllPaths == Paths \cup {BatchPaths[i] : i \in 1..Len(BatchPaths)}

\* Path.stem of the file names used
Stem(name) == CASE name = "a.pan" -> "a" [] name = "b.pan" -> "b" [] OTHER -> name

\* The texts a file can hold, each a sequence of lines.
Text(c) ==
    CASE c = "c1" -> << <<PFX, EQ, "pvModule">>,
                        <<"PNom", EQ, "400">>,
                        <<"Height", EQ, "2">>,
                        <<"Width", EQ, "1">>,
                        <<"Technol", EQ, "mtSiMono">>,
                        <<ENDMARK, SP, "pvModule">> >>
      [] c = "c2" -> << <<PFX, EQ, "pvModule">>,
                        <<PFX, "Commercial", EQ, "pvCommercial">>,
                        <<"Model", EQ, "X">>,
                        <<"Width", EQ, "2">>,
                        <<ENDMARK, SP, "pvCommercial">>,
                        <<"PNom", EQ, "0">>,
                        <<"Height", EQ, "1">>,
                        <<"Width", EQ, "1">>,
                        <<ENDMARK, SP, "pvModule">> >>
      [] c = "cBad" -> << <<PFX, EQ, "pvModule">>,
                          <<"PNom", EQ, "600">>,
                          <<"BifacialityFactor", EQ, "abc">>,
                          <<ENDMARK, SP, "pvModule">> >>
      [] c = "c1x" -> << <<PFX, EQ, "pvModule">>,
                         <<"PNom", EQ, "200">>,
                         <<"Height", EQ, "2">>,
                         <<"Width", EQ, "1">>,
                         <<"Technol", EQ, "mtSiMono">>,
                         <<ENDMARK, SP, "pvModule">> >>
      [] c = "cText" -> << <<PFX, EQ, "pvModule">>,
                           <<"PNom", EQ, "abc">>,
                           <<"Height", EQ, "2">>,
                           <<"Width", EQ, "1">>,
                           <<ENDMARK, SP, "pvModule">> >>
      [] c = "cEmpty" -> << <<"junk">> >>

Contents == {"c1", "c1x", "c2", "cBad", "cText", "cEmpty"}
MISSING == "missing"

\* hashlib.sha256(...).hexdigest(): two tokens, the first 8 hex characters and the rest.
\* The digests of c1 and c1x differ after the first 8 characters only.
Sha256(c) ==
    CASE c = "c1" -> <<"1a2b3c4d", "e1">>
      [] c = "c1x" -> <<"1a2b3c4d", "e5">>
      [] c = "c2" -> <<"5e6f7a8b", "e2">>
      [] c = "cBad" -> <<"9c0d1e2f", "e3">>
      [] c = "cEmpty" -> <<"3a4b5c6d", "e4">>
      [] c = "cText" -> <<"7e8f9a0b", "e6">>

\* stat().st_size
StSize(c) == CASE c = "c1" -> 60 [] c = "c1x" -> 60 [] c = "c2" -> 60 [] c = "cBad" -> 45 [] c = "cText" -> 50 [] c = "cEmpty" -> 4

\* =====================================================================
\* Field mapper: PANFileParser.map_pan_data and the pydantic models
\* =====================================================================
\* Attribute values: None, a float, or the raw node left by setattr
NoneV == [k |-> "none"]
NumV(n) == [k |-> "num", v |-> n]

\* float(text) for the numeric texts used; every other text raises ValueError
NumericTexts == {<<"0">>, <<"1">>, <<"2">>, <<"200">>, <<"400">>, <<"600">>}
FloatOf(s) ==
    CASE s = <<"0">> -> 0 [] s = <<"1">> -> 1 [] s = <<"2">> -> 2
      [] s = <<"200">> -> 200 [] s = <<"400">> -> 400 [] s = <<"600">> -> 600

\* str.replace(',', '.')
ReplaceComma(s) == [i \in 1..Len(s) |-> IF s[i] = COMMA THEN "." ELSE s[i]]

\* parser.py:308-317
ParseNumericValue(node) ==
    IF node.k = "list" /\ node.v # <<>>
    THEN IF ReplaceComma(node.v[1]) \in NumericTexts
         THEN NumV(FloatOf(ReplaceComma(node.v[1]))) ELSE NoneV
    ELSE IF node.k = "str"
    THEN IF ReplaceComma(node.v) \in NumericTexts
         THEN NumV(FloatOf(ReplaceComma(node.v))) ELSE NoneV
    ELSE NoneV

\* parser.py:94-123 (the entries the modelled record carries), in table order
FIELD_MAPPING ==
    << <<"Manufacturer", "name">>,
       <<"Model", "model">>,
       <<"Width", "width">>,
       <<"Height", "height">>,
       <<"NCelS", "cells_in_series">>,
       <<"NCelP", "cells_in_parallel">>,
       <<"PNom", "pmax_stc">>,
       <<"Isc", "isc_stc">>,
       <<"Voc", "voc_stc">>,
       <<"Imp", "imp_stc">>,
       <<"Vmp", "vmp_stc">>,
       <<"muVocSpec", "temp_coeff_voc">>,
       <<"BifacialityFactor", "bifaciality_factor">> >>

\* parser.py:126-131: the factor of an attribute is UnitFactor / UnitDivisor
\* (1000 for the lengths, 0.1 = 1/10 for temp_coeff_voc, 1 for every other attribute)
UnitFactor(attr) == IF attr \in {"width", "height", "thickness"} THEN 1000 ELSE 1
UnitDivisor(attr) == IF attr = "temp_coeff_voc" THEN 10 ELSE 1

RECURSIVE Gcd(_, _)
Gcd(a, b) == IF b = 0 THEN a ELSE Gcd(b, a % b)

\* The float n/d (n >= 0, d > 0): NumV(n/d) when it is whole, else the number in
\* lowest terms with its denominator in field d
Quot(n, d) ==
    IF d \div Gcd(n, d) = 1 THEN NumV(n \div Gcd(n, d))
    ELSE [k |-> "num", v |-> n \div Gcd(n, d), d |-> d \div Gcd(n, d)]
Den(x) == IF "d" \in DOMAIN x THEN x.d ELSE 1

\* models.py:67-76: the angles of the declared iam_<angle> fields
IamAngles == {0, 30, 45, 60, 70, 75, 80, 85, 90}

\* models.py:125-136, the total_cells part of calculate_derived_fields
CalculateDerivedFields(cells_in_series, cells_in_parallel) ==
    IF cells_in_series.k = "num" /\ cells_in_parallel.k = "num"
    THEN NumV(cells_in_series.v * cells_in_parallel.v) ELSE NoneV

\* parser.py:322-325: the freshly constructed parameter objects, as one record;
\* exc is the exception raised while filling them ("none" when none)
FreshAttrs(manufacturer, model) ==
    [name |-> StrNode(manufacturer), model |-> StrNode(model),
     width |-> NoneV, height |-> NoneV, pmax_stc |-> NoneV, isc_stc |-> NoneV,
     voc_stc |-> NoneV, imp_stc |-> NoneV, vmp_stc |-> NoneV,
     bifaciality_factor |-> NoneV, temp_coeff_voc |-> NoneV,
     cells_in_series |-> NoneV, cells_in_parallel |-> NoneV,
     total_cells |-> CalculateDerivedFields(NoneV, NoneV),
     iam |-> [a \in IamAngles |-> NoneV], exc |-> "none"]

\* parser.py:338  if pan_field in data_source:   (dict: key lookup, list: element
\* lookup, str: substring test, taken here on whole tokens)
FieldInSource(source, pan_field) ==
    CASE source.k = "dict" -> <<pan_field>> \in DOMAIN source.v
      [] source.k = "list" -> \E i \in 1..Len(source.v) : source.v[i] = <<pan_field>>
      [] source.k = "str" -> Contains(source.v, pan_field)
      [] OTHER -> FALSE

\* parser.py:338-357: one table entry applied to one data source
ApplyField(attrs, source, entry) ==
    IF attrs.exc # "none" THEN attrs
    ELSE IF ~FieldInSource(source, entry[1]) THEN attrs
    ELSE IF source.k # "dict" THEN [attrs EXCEPT !.exc = "TypeError"]
    ELSE LET value == source.v[<<entry[1]>>]
             num == ParseNumericValue(value)
         IN IF num # NoneV
            THEN [attrs EXCEPT ![entry[2]] =
                                 Quot(num.v * UnitFactor(entry[2]), UnitDivisor(entry[2]))]
            ELSE [attrs EXCEPT ![entry[2]] = value]

RECURSIVE ApplyTable(_, _, _)
ApplyTable(attrs, source, i) ==
    IF i > Len(FIELD_MAPPING) THEN attrs
    ELSE ApplyTable(ApplyField(attrs, source, FIELD_MAPPING[i]), source, i + 1)

\* Faulty variant of ApplySources: the Commercial block is processed last.
ApplySourcesRootFirst(attrs, commercial, rootnode) ==
    ApplyTable(ApplyTable(attrs, rootnode, 1), commercial, 1)

\* parser.py:334-357  data_sources = [commercial, pan_data], processed in that order
ApplySources(attrs, commercial, rootnode) ==
    ApplyTable(ApplyTable(attrs, commercial, 1), rootnode, 1)

\* parser.py:380-387
TechMap(tech) ==
    CASE tech = StrNode(<<"mtSiMono">>) -> "monocrystalline"
      [] tech = StrNode(<<"mtSiPoly">>) -> "polycrystalline"
      [] tech = StrNode(<<"mtCIS">>) -> "cigs"
      [] tech = StrNode(<<"mtCdTe">>) -> "cdte"
      [] OTHER -> "unknown"

DictGet(d, key, default) == IF key \in DOMAIN d THEN d[key] ELSE default

\* models.py:215-221: None when the validator passes, else the exception it raises
ModuleTypeValidator(attrs) ==
    IF attrs.bifaciality_factor.k = "none" THEN "none"
    ELSE IF attrs.bifaciality_factor.k = "num" THEN "none"
    ELSE IF attrs.bifaciality_factor.v = <<>> THEN "none"
    ELSE "TypeError"

ModuleTypeOf(attrs) ==
    IF attrs.bifaciality_factor.k = "num" /\ attrs.bifaciality_factor.v > 0
    THEN "bifacial" ELSE "standard"

\* models.py:162-173: the fields of FileMetadata
FileMetadataFields ==
    {"file_path", "file_name", "file_size", "file_hash", "last_modified", "parsed_at",
     "manufacturer_folder", "model_folder"}

\* parser.py:409-421
CreateFileMetadata(path, c, manufacturer, model) ==
    [file_path |-> path, file_name |-> path[Len(path)], file_size |-> StSize(c),
     file_hash |-> Sha256(c), manufacturer_folder |-> manufacturer, model_folder |-> model]

\* parser.py:192-220
ExtractManufacturerModelFromPath(path) ==
    IF Len(path) >= 3 THEN <<<<path[1]>>, <<path[2]>>>>
    ELSE IF Len(path) >= 2 THEN <<<<path[1]>>, <<Stem(path[Len(path)])>>>>
    ELSE <<<<"Unknown">>, <<Stem(path[Len(path)])>>>>

\* Python truth value of an attribute
Truthy(v) ==
    CASE v.k = "none" -> FALSE
      [] v.k = "num" -> v.v # 0
      [] v.k = "str" -> v.v # <<>>
      [] v.k = "list" -> v.v # <<>>
      [] OTHER -> TRUE

\* parser.py:362  f"Point_{i}" for i in range(1, 10)
PointKeys ==
    <<"Point_1", "Point_2", "Point_3", "Point_4", "Point_5", "Point_6", "Point_7",
      "Point_8", "Point_9">>

\* parser.py:363-377: one iteration of the IAM loop.  IndexError, ValueError and
\* TypeError raised inside the try are swallowed; setattr of a name the model
\* does not declare raises ValueError (pydantic BaseModel.__setattr__).
IamStep(attrs, iam, i) ==
    IF ~FieldInSource(iam, PointKeys[i]) THEN attrs
    ELSE IF iam.k # "dict" THEN attrs
    ELSE LET point_value == iam.v[<<PointKeys[i]>>] IN
         IF point_value.k # "list" THEN attrs
         ELSE IF Len(point_value.v) < 2 THEN attrs
         ELSE IF Strip(point_value.v[2]) \notin NumericTexts THEN attrs
         ELSE IF 5 * (i - 1) \notin IamAngles THEN attrs
         ELSE [attrs EXCEPT !.iam[5 * (i - 1)] = NumV(FloatOf(Strip(point_value.v[2])))]

RECURSIVE IamLoop(_, _, _)
IamLoop(attrs, iam, i) ==
    IF i > Len(PointKeys) THEN attrs ELSE IamLoop(IamStep(attrs, iam, i), iam, i + 1)

\* parser.py:389-395: temp_coeff_voc * 0.1 / voc_stc when both are truthy
VocConversion(attrs) ==
    IF ~(Truthy(attrs.temp_coeff_voc) /\ Truthy(attrs.voc_stc)) THEN attrs
    ELSE IF attrs.temp_coeff_voc.k # "num" \/ attrs.voc_stc.k # "num"
    THEN [attrs EXCEPT !.exc = "TypeError"]
    ELSE [attrs EXCEPT !.temp_coeff_voc =
             Quot(attrs.temp_coeff_voc.v * Den(attrs.voc_stc),
                  Den(attrs.temp_coeff_voc) * 10 * attrs.voc_stc.v)]

\* parser.py:319-407.  pan_data0 is the decoded root dict.  The result is either
\* [raised |-> exception] or [raised |-> "none", module |-> the PVModule].
MapPanData(pan_data0, manufacturer, model, file_metadata) ==
    LET rootnode == IF <<>> \in DOMAIN pan_data0 THEN pan_data0[<<>>] ELSE DictNode(pan_data0)
    IN
    IF rootnode.k # "dict" THEN [raised |-> "AttributeError"]
    ELSE
    LET pan_data == rootnode.v
        commercial == DictGet(pan_data, <<"Commercial">>, DictNode(EmptyDict))
        a2 == ApplySources(FreshAttrs(manufacturer, model), commercial, rootnode)
        a3 == IamLoop(a2, DictGet(pan_data, <<"IAM">>, DictNode(EmptyDict)), 1)
        tech_str == DictGet(pan_data, <<"Technol">>, StrNode(<<>>))
        attrs == VocConversion(a3)
    IN
    IF a2.exc # "none" THEN [raised |-> a2.exc]
    ELSE IF tech_str.k # "str" THEN [raised |-> "TypeError"]
    ELSE IF attrs.exc # "none" THEN [raised |-> attrs.exc]
    ELSE IF ModuleTypeValidator(attrs) # "none" THEN [raised |-> ModuleTypeValidator(attrs)]
    ELSE [raised |-> "none",
          module |-> [manufacturer_info |-> [name |-> attrs.name, model |-> attrs.model],
                      electrical_params |-> [pmax_stc |-> attrs.pmax_stc,
                                             vmp_stc |-> attrs.vmp_stc,
                                             imp_stc |-> attrs.imp_stc,
                                             voc_stc |-> attrs.voc_stc,
                                             isc_stc |-> attrs.isc_stc,
                                             bifaciality_factor |-> attrs.bifaciality_factor,
                                             temp_coeff_voc |-> attrs.temp_coeff_voc,
                                             iam |-> attrs.iam],
                      physical_params |-> [height |-> attrs.height, width |-> attrs.width,
                                           cells_in_series |-> attrs.cells_in_series,
                                           cells_in_parallel |-> attrs.cells_in_parallel,
                                           total_cells |-> attrs.total_cells],
                      certification_info |-> [iec_61215 |-> NoneV, iec_61730 |-> NoneV,
                                              ul_listed |-> NoneV, ce_marking |-> NoneV,
                                              certifications |-> <<>>],
                      file_metadata |-> file_metadata,
                      cell_type |-> TechMap(tech_str),
                      module_type |-> ModuleTypeOf(attrs),
                      raw_data |-> pan_data]]

\* str(x) inside an f-string, for the values a name or model can hold
NumText(n) ==
    CASE n = 0 -> <<"0", ".0">> [] n = 1 -> <<"1", ".0">> [] n = 2 -> <<"2", ".0">>
      [] n = 200 -> <<"200", ".0">> [] n = 400 -> <<"400", ".0">> [] n = 600 -> <<"600", ".0">>
      [] OTHER -> <<"float">>

RECURSIVE JoinList(_)
JoinList(l) ==
    IF l = <<>> THEN <<>>
    ELSE IF Len(l) = 1 THEN <<"'">> \o l[1] \o <<"'">>
    ELSE <<"'">> \o l[1] \o <<"'", COMMA, SP>> \o JoinList(Tail(l))

PyStr(v) ==
    CASE v.k = "str" -> v.v
      [] v.k = "num" -> NumText(v.v)
      [] v.k = "list" -> <<"[">> \o JoinList(v.v) \o <<"]">>
      [] OTHER -> <<"None">>

\* file_hash[:8]
Prefix8(h) == IF h = <<>> THEN <<>> ELSE <<h[1]>>

\* Faulty variant of UniqueId: the content hash is left out.
UniqueIdWithoutHash(m) ==
    PyStr(m.manufacturer_info.name) \o <<"_">> \o PyStr(m.manufacturer_info.model)

\* models.py:200-203
UniqueId(m) ==
    PyStr(m.manufacturer_info.name) \o <<"_">> \o PyStr(m.manufacturer_info.model)
        \o <<"_">> \o Prefix8(m.file_metadata.file_hash)

\* =====================================================================
\* Module repository: PVModuleDatabase
\* =====================================================================
NullV == [t |-> "null"]
Real(n, d) == [t |-> "real", n |-> n, d |-> d]

\* the real n/d in lowest terms (n >= 0, d > 0)
Frac(n, d) == Real(n \div Gcd(n, d), d \div Gcd(n, d))
TextV(s) == [t |-> "text", s |-> s]

\* The three tables and the AUTOINCREMENT counters (sqlite_sequence) of one
\* database file.  database.py:37-134
EmptyDb ==
    [pv_modules |-> {}, certifications |-> {}, raw_pan_data |-> {},
     seq |-> [pv_modules |-> 0, certifications |-> 0, raw_pan_data |-> 0]]

\* database.py:136-141
ModuleExists(d, unique_id) == \E r \in d.pv_modules : r.unique_id = unique_id

\* database.py:150-156   (None is the empty set)
GetModuleIdByUniqueId(d, unique_id) == {r.id : r \in {x \in d.pv_modules : x.unique_id = unique_id}}

\* float(x): a number, "ValueError" or "TypeError"
PyFloat(v) ==
    CASE v.k = "num" -> [exc |-> "none", v |-> v.v]
      [] v.k = "str" -> IF v.v \in NumericTexts THEN [exc |-> "none", v |-> FloatOf(v.v)]
                        ELSE [exc |-> "ValueError"]
      [] OTHER -> [exc |-> "TypeError"]

AllNullDerived == [area_m2 |-> NullV, efficiency_stc |-> NullV, power_density |-> NullV]

\* database.py:181-198 and 275-292: area_m2 = h*w/1e6, efficiency = pmax/(area*1000)*100
\* = pmax*1e5/(h*w), power_density = pmax/area = pmax*1e6/(h*w), as fractions
DerivedValues(module) ==
    LET pmax == module.electrical_params.pmax_stc
        height == module.physical_params.height
        width == module.physical_params.width
    IN
    IF ~(Truthy(pmax) /\ Truthy(height) /\ Truthy(width)) THEN AllNullDerived
    ELSE IF PyFloat(height).exc # "none" \/ PyFloat(width).exc # "none"
            \/ PyFloat(pmax).exc # "none" THEN AllNullDerived
    ELSE LET h == PyFloat(height).v
             w == PyFloat(width).v
             p == PyFloat(pmax).v
         IN IF h * w = 0
            THEN [area_m2 |-> Real(0, 1), efficiency_stc |-> NullV, power_density |-> NullV]
            ELSE [area_m2 |-> Frac(h * w, 1000000),
                  efficiency_stc |-> Frac(p * 100000, h * w),
                  power_density |-> Frac(p * 1000000, h * w)]

\* models.py:36-76, 99-116, 151-159, 162-173: the declared fields of each model
ModelFields(obj) ==
    CASE obj = "manufacturer_info" ->
            {"name", "model", "series", "data_source", "year", "country_of_origin"}
      [] obj = "electrical_params" ->
            {"pmax_stc", "vmp_stc", "imp_stc", "voc_stc", "isc_stc", "temp_coeff_pmax",
             "temp_coeff_voc", "temp_coeff_isc", "g_ref", "t_ref", "noct", "bypass_diodes",
             "max_system_voltage", "r_series", "r_shunt", "bifaciality_factor",
             "iam_0", "iam_30", "iam_45", "iam_60", "iam_70", "iam_75", "iam_80", "iam_85",
             "iam_90"}
      [] obj = "physical_params" ->
            {"width", "height", "thickness", "weight", "area", "cells_in_series",
             "cells_in_parallel", "total_cells", "cell_area"}
      [] obj = "file_metadata" -> FileMetadataFields

\* database.py:218-255 and 309-345: the attributes read, in order, while the
\* parameter tuple of the INSERT / UPDATE statement is built
ParamAccesses ==
    << <<"manufacturer_info", "name">>, <<"manufacturer_info", "model">>,
       <<"manufacturer_info", "series">>,
       <<"electrical_params", "pmax_stc">>, <<"electrical_params", "vmp_stc">>,
       <<"electrical_params", "imp_stc">>, <<"electrical_params", "voc_stc">>,
       <<"electrical_params", "isc_stc">>, <<"electrical_params", "temp_coeff_pmax">>,
       <<"electrical_params", "temp_coeff_voc">>, <<"electrical_params", "temp_coeff_isc">>,
       <<"electrical_params", "noct">>, <<"electrical_params", "max_system_voltage">>,
       <<"physical_params", "height">>, <<"physical_params", "width">>,
       <<"physical_params", "thickness">>, <<"physical_params", "weight">>,
       <<"physical_params", "cells_in_series">>, <<"physical_params", "cells_in_parallel">>,
       <<"physical_params", "total_cells">>,
       <<"file_metadata", "file_path">>, <<"file_metadata", "file_name">>,
       <<"file_metadata", "file_size">>, <<"file_metadata", "file_hash">>,
       <<"file_metadata", "manufacturer_folder">>, <<"file_metadata", "model_folder">>,
       <<"file_metadata", "parsed_at">>, <<"file_metadata", "parser_version">> >>

\* Reading an attribute a pydantic model does not declare raises AttributeError.
BindParams ==
    IF \E i \in 1..Len(ParamAccesses) : ParamAccesses[i][2] \notin ModelFields(ParamAccesses[i][1])
    THEN "AttributeError" ELSE "none"

\* A Python value bound as a statement parameter: SQL value, or unsupported type
Bindable(v) == v.k \in {"none", "num", "str"}
Bind(v) ==
    CASE v.k = "none" -> NullV
      [] v.k = "num" -> Real(v.v, 1)
      [] OTHER -> TextV(v.v)

\* database.py:31-35
NormalizeValue(v) ==
    IF v.k = "list"
    THEN IF v.v = <<>> THEN NoneV ELSE StrNode(JoinList(v.v))
    ELSE v

\* The column values written by INSERT (database.py:204-255) and by UPDATE
\* (database.py:295-345), for the columns the model carries.
RowValues(module) ==
    [manufacturer |-> Bind(NormalizeValue(module.manufacturer_info.name)),
     model |-> Bind(module.manufacturer_info.model),
     pmax_stc |-> Bind(module.electrical_params.pmax_stc),
     vmp_stc |-> Bind(module.electrical_params.vmp_stc),
     imp_stc |-> Bind(module.electrical_params.imp_stc),
     voc_stc |-> Bind(module.electrical_params.voc_stc),
     isc_stc |-> Bind(module.electrical_params.isc_stc),
     height |-> Bind(module.physical_params.height),
     width |-> Bind(module.physical_params.width),
     cell_type |-> TextV(<<module.cell_type>>),
     module_type |-> TextV(<<module.module_type>>),
     efficiency_stc |-> DerivedValues(module).efficiency_stc,
     power_density |-> DerivedValues(module).power_density,
     area_m2 |-> DerivedValues(module).area_m2,
     file_path |-> module.file_metadata.file_path,
     file_hash |-> module.file_metadata.file_hash,
     file_size |-> module.file_metadata.file_size]

AllBindable(module) ==
    /\ Bindable(NormalizeValue(module.manufacturer_info.name))
    /\ Bindable(module.manufacturer_info.model)
    /\ Bindable(module.electrical_params.pmax_stc)
    /\ Bindable(module.electrical_params.vmp_stc)
    /\ Bindable(module.electrical_params.imp_stc)
    /\ Bindable(module.electrical_params.voc_stc)
    /\ Bindable(module.electrical_params.isc_stc)
    /\ Bindable(module.physical_params.height)
    /\ Bindable(module.physical_params.width)

\* one table row: id and unique_id plus the column values
MakeRow(id, unique_id, vals) ==
    [id |-> id, unique_id |-> unique_id, manufacturer |-> vals.manufacturer,
     model |-> vals.model, pmax_stc |-> vals.pmax_stc, vmp_stc |-> vals.vmp_stc,
     imp_stc |-> vals.imp_stc, voc_stc |-> vals.voc_stc, isc_stc |-> vals.isc_stc,
     height |-> vals.height, width |-> vals.width, cell_type |-> vals.cell_type,
     module_type |-> vals.module_type, efficiency_stc |-> vals.efficiency_stc,
     power_density |-> vals.power_density, area_m2 |-> vals.area_m2,
     file_path |-> vals.file_path, file_hash |-> vals.file_hash,
     file_size |-> vals.file_size]

Range(q) == {q[i] : i \in 1..Len(q)}

\* Op applied to the value of v, with v evaluated once
With(v, Op(_)) == CHOOSE r \in {Op(x) : x \in {v}} : TRUE

RECURSIVE SetToSeq(_)
SetToSeq(S) ==
    IF S = {} THEN <<>>
    ELSE LET x == CHOOSE y \in S : TRUE IN <<x>> \o SetToSeq(S \ {x})

\* database.py:357-379: the (name, certified) pairs inserted, in order
CertData(ci) ==
    LET named == << <<"IEC 61215", ci.iec_61215>>, <<"IEC 61730", ci.iec_61730>>,
                    <<"UL Listed", ci.ul_listed>>, <<"CE Marking", ci.ce_marking>> >>
        set == SelectSeq(named, LAMBDA e : e[2].k # "none")
    IN [i \in 1..Len(set) |-> <<set[i][1], Bind(set[i][2])>>]
       \o [i \in 1..Len(ci.certifications) |-> <<ci.certifications[i], Real(1, 1)>>]

InsertCertifications(d, module_id, ci) ==
    LET data == CertData(ci) IN
    [d EXCEPT !.certifications = @ \cup
                 {[id |-> d.seq.certifications + i, module_id |-> module_id,
                   certification_name |-> data[i][1], certified |-> data[i][2]]
                    : i \in 1..Len(data)},
              !.seq.certifications = @ + Len(data)]

\* database.py:381-387: one row per top-level key of the raw tree
InsertRawData(d, module_id, raw) ==
    LET keys == SetToSeq(DOMAIN raw) IN
    [d EXCEPT !.raw_pan_data = @ \cup
                 {[id |-> d.seq.raw_pan_data + i, module_id |-> module_id,
                   parameter_name |-> keys[i], parameter_value |-> raw[keys[i]]]
                    : i \in 1..Len(keys)},
              !.seq.raw_pan_data = @ + Len(keys)]

\* The statements of one call, in the order the code issues them inside
\* "with sqlite3.connect(...) as conn".  "bind" is the evaluation of the parameter
\* tuple, which precedes the execution of the statement it belongs to.
\* database.py:204-264
InsertModuleSteps ==
    <<"bind", "insert_row", "insert_certifications", "insert_raw_data", "commit">>

\* Faulty variant of UpdateModuleSteps: the child rows are deleted and that deletion
\* committed before the main row is updated.
UpdateModuleStepsDeleteFirst ==
    <<"delete_certifications", "delete_raw_data", "commit", "bind", "update_row",
      "insert_certifications", "insert_raw_data", "commit">>

\* database.py:295-355
UpdateModuleSteps ==
    <<"bind", "update_row", "delete_certifications", "delete_raw_data",
      "insert_certifications", "insert_raw_data", "commit">>

\* One step on the connection's uncommitted view.  st.committed is what other
\* connections see, st.work the view of this connection, st.id the module id.
ExecStep(step, st, module) ==
    CASE step = "bind" ->
            IF BindParams # "none" THEN [st EXCEPT !.exc = BindParams] ELSE st
      [] step = "insert_row" ->
            IF ~AllBindable(module) THEN [st EXCEPT !.exc = "sqlite3.Error"]
            ELSE IF ModuleExists(st.work, UniqueId(module))
            THEN [st EXCEPT !.exc = "sqlite3.IntegrityError"]
            ELSE [st EXCEPT
                    !.work.pv_modules = @ \cup
                        {MakeRow(st.work.seq.pv_modules + 1, UniqueId(module), RowValues(module))},
                    !.work.seq.pv_modules = @ + 1,
                    !.id = st.work.seq.pv_modules + 1]
      [] step = "update_row" ->
            IF ~AllBindable(module) THEN [st EXCEPT !.exc = "sqlite3.Error"]
            ELSE [st EXCEPT
                    !.work.pv_modules =
                        {IF r.id = st.id THEN MakeRow(r.id, r.unique_id, RowValues(module)) ELSE r
                           : r \in @}]
      [] step = "delete_certifications" ->
            [st EXCEPT !.work.certifications = {c \in @ : c.module_id # st.id}]
      [] step = "delete_raw_data" ->
            [st EXCEPT !.work.raw_pan_data = {c \in @ : c.module_id # st.id}]
      [] step = "insert_certifications" ->
            [st EXCEPT !.work = InsertCertifications(@, st.id, module.certification_info)]
      [] step = "insert_raw_data" ->
            [st EXCEPT !.work = InsertRawData(@, st.id, module.raw_data)]
      [] step = "commit" ->
            [st EXCEPT !.committed = st.work]

\* The steps run in order; fault > 0 makes the storage engine fail the fault-th
\* step (an I/O error); an exception leaves the "with" block, which rolls the
\* connection back to what was last committed.
RECURSIVE RunSteps(_, _, _, _, _)
RunSteps(steps, i, st, module, fault) ==
    IF i > Len(steps) THEN st
    ELSE IF fault = i /\ steps[i] # "bind"
    THEN [st EXCEPT !.exc = "sqlite3.OperationalError", !.work = st.committed]
    ELSE LET nxt == ExecStep(steps[i], st, module) IN
         IF nxt.exc # "none" THEN [nxt EXCEPT !.work = nxt.committed]
         ELSE RunSteps(steps, i + 1, nxt, module, fault)

\* The outcome of a call: the database afterwards, the value returned (the empty
\* set is None) and the exception raised ("none" when none).
TxnOutcome(d, steps, module, id, fault) ==
    LET fin == RunSteps(steps, 1, [committed |-> d, work |-> d, exc |-> "none", id |-> id],
                        module, fault)
    IN [db |-> fin.committed, exc |-> fin.exc,
        ret |-> IF fin.exc = "none" THEN {fin.id} ELSE {}]

\* database.py:266-355
UpdateModuleOutcome(d, module, fault) ==
    LET found == GetModuleIdByUniqueId(d, UniqueId(module)) IN
    IF found = {} \/ found = {0} THEN [db |-> d, exc |-> "none", ret |-> {}]
    ELSE TxnOutcome(d, UpdateModuleSteps, module, CHOOSE x \in found : TRUE, fault)

\* database.py:158-264
InsertModuleOutcome(d, module, update_if_exists, fault) ==
    IF ModuleExists(d, UniqueId(module))
    THEN IF update_if_exists
         THEN UpdateModuleOutcome(d, module, fault)
         ELSE [db |-> d, exc |-> "none", ret |-> GetModuleIdByUniqueId(d, UniqueId(module))]
    ELSE TxnOutcome(d, InsertModuleSteps, module, 0, fault)

\* =====================================================================
\* State
\* =====================================================================
VARIABLES
    fs,         \* the files under base_directory: path -> content, or MISSING
    registry,   \* PANFileParser.registry: str(path) -> ParsedFileRegistry
    results,    \* the ParsingResult last obtained for each path (None: the empty set)
    db,         \* the database file behind PVModuleDatabase
    upserted,   \* unique_id -> the module of the latest insert_module(update_if_exists
                \* = True) call since the last clear_database
    edits,      \* number of file modifications so far
    last,       \* the latest call: its arguments, return value and exception
    dec_in,     \* decoder check: the text handed to parse_pan_structure
    dec_out,    \* decoder check: what parse_pan_structure returned
    doc,        \* the registry document on disk (registry_file)
    run         \* the parse_directory call in progress: its position and locals

vars == <<fs, registry, results, db, upserted, edits, last, dec_in, dec_out, doc, run>>

NotRun == [raised |-> "notrun"]
EmptyMap == [x \in {} |-> {}]
MapSet(f, key, val) == [x \in (DOMAIN f) \cup {key} |-> IF x = key THEN val ELSE f[x]]

\* =====================================================================
\* Change-tracking registry and parse_file
\* =====================================================================
\* calculate_file_hash / stat of the file now at path (parser.py:165-174, 233-236)
CurrentHash(p) == Sha256(fs[p])
CurrentSize(p) == StSize(fs[p])

\* Faulty variant of UnchangedAndProcessed: the success flag is not consulted.
UnchangedIgnoringSuccess(p) ==
    /\ p \in DOMAIN registry
    /\ registry[p].file_hash = CurrentHash(p)
    /\ registry[p].file_size = CurrentSize(p)

\* parser.py:239-245: the registry says the file is unchanged and was processed
UnchangedAndProcessed(p) ==
    /\ p \in DOMAIN registry
    /\ registry[p].file_hash = CurrentHash(p)
    /\ registry[p].file_size = CurrentSize(p)
    /\ registry[p].success

\* parser.py:229-249: the file is appended to new_files
NeedsProcessing(p) ==
    IF fs[p] = MISSING THEN TRUE     \* stat() raises, the except branch appends
    ELSE ~UnchangedAndProcessed(p)

\* scan_directory returns sorted(set(...)) (parser.py:190)
FileLists == {<<>>, <<P1>>, <<P2>>, <<P1, P2>>}

\* parser.py:222-250
GetNewFiles(all_files) ==
    /\ last' = [op |-> "get_new_files", all_files |-> all_files,
                ret |-> SelectSeq(all_files, NeedsProcessing)]
    /\ UNCHANGED <<fs, registry, results, db, upserted, edits, dec_in, dec_out, doc, run>>

\* parser.py:423-435
RegistryEntry(p, success, error) ==
    [file_path |-> p, file_hash |-> CurrentHash(p), file_size |-> CurrentSize(p),
     success |-> success, error_message |-> error]

\* parse_pan_structure and map_pan_data are functions of the text (and the path):
\* their values on the texts of Contents, tabulated.
DecodedText == [c \in Contents |-> ParsePanStructure(Text(c))]

MappedText ==
    [p \in AllPaths |-> [c \in Contents |->
        LET mm == ExtractManufacturerModelFromPath(p) IN
        MapPanData(DecodedText[c].tree, mm[1], mm[2], CreateFileMetadata(p, c, mm[1], mm[2]))]]

\* parser.py:437-480: the ParsingResult returned and the registry afterwards
ParseFileOutcome(p) ==
    IF fs[p] = MISSING
    THEN [result |-> [success |-> FALSE,
                      error_message |-> "Could not read file with any encoding"],
          registry |-> registry]
    ELSE
    LET decoded == DecodedText[fs[p]] IN
    IF decoded.raised # "none"
    THEN [result |-> [success |-> FALSE, error_message |-> decoded.raised],
          registry |-> MapSet(registry, p, RegistryEntry(p, FALSE, decoded.raised))]
    ELSE IF decoded.tree = EmptyDict
    THEN [result |-> [success |-> FALSE, error_message |-> "Failed to parse file structure"],
          registry |-> registry]
    ELSE
    LET mapped == MappedText[p][fs[p]] IN
    IF mapped.raised # "none"
    THEN [result |-> [success |-> FALSE, error_message |-> mapped.raised],
          registry |-> MapSet(registry, p, RegistryEntry(p, FALSE, mapped.raised))]
    ELSE [result |-> [success |-> TRUE, module |-> mapped.module],
          registry |-> MapSet(registry, p, RegistryEntry(p, TRUE, ""))]

\* parse_file, its result kept under the path as parse_directory does (parser.py:500-501)
ParseFile(p) ==
    /\ LET out == ParseFileOutcome(p) IN
       /\ registry' = out.registry
       /\ results' = [results EXCEPT ![p] = {out.result}]
       /\ last' = [op |-> "parse_file", path |-> p, result |-> out.result,
                   before |-> results[p]]
    /\ UNCHANGED <<fs, db, upserted, edits, dec_in, dec_out, doc, run>>

\* The environment rewrites, creates or removes a file between two calls.
MaxEdits == 1

ModifyFile(p, c) ==
    /\ edits < MaxEdits
    /\ c # fs[p]
    /\ fs' = [fs EXCEPT ![p] = c]
    /\ edits' = edits + 1
    /\ last' = [op |-> "modify_file", path |-> p]
    /\ UNCHANGED <<registry, results, db, upserted, dec_in, dec_out, doc, run>>

\* =====================================================================
\* Repository calls
\* =====================================================================
\* The step of the write at which sqlite raises (0: at none)
Faults == 0..2

\* insert_module(result.module, update_if_exists) on a successful result
\* (cli/commands/parse.py:211, database.py:158-264)
InsertModule(p, update_if_exists, fault) ==
    /\ results[p] # {}
    /\ LET res == CHOOSE r \in results[p] : TRUE IN
       /\ res.success
       /\ LET out == InsertModuleOutcome(db, res.module, update_if_exists, fault) IN
          /\ db' = out.db
          /\ upserted' = IF update_if_exists
                         THEN MapSet(upserted, UniqueId(res.module), res.module)
                         ELSE upserted
          /\ last' = [op |-> "insert_module", module |-> res.module,
                      update_if_exists |-> update_if_exists, before |-> db,
                      ret |-> out.ret, exc |-> out.exc,
                      \* the call before this one, when it was the same upsert
                      again |-> /\ last.op = "insert_module"
                                /\ update_if_exists
                                /\ last.update_if_exists
                                /\ last.module = res.module,
                      prev_ret |-> IF last.op = "insert_module" THEN last.ret ELSE {},
                      after_clear |-> last.op = "clear_database"]
    /\ UNCHANGED <<fs, registry, results, edits, dec_in, dec_out, doc, run>>

\* Faulty variant of ClearDatabase: only the pv_modules table is emptied.
ClearModulesOnly ==
    /\ db' = [db EXCEPT !.pv_modules = {}]
    /\ upserted' = EmptyMap
    /\ last' = [op |-> "clear_database"]
    /\ UNCHANGED <<fs, registry, results, edits, dec_in, dec_out, doc, run>>

\* database.py:922-950: the file is removed (or its tables dropped) and the
\* schema created again
ClearDatabase ==
    /\ db' = EmptyDb
    /\ upserted' = EmptyMap
    /\ last' = [op |-> "clear_database"]
    /\ UNCHANGED <<fs, registry, results, edits, dec_in, dec_out, doc, run>>

\* =====================================================================
\* The lists a SELECT without ORDER BY can return for a set of rows
RECURSIVE Orderings(_)
Orderings(S) ==
    IF S = {} THEN {<<>>}
    ELSE UNION {{<<x>> \o q : q \in Orderings(S \ {x})} : x \in S}

\* database.py:1022-1040: the rows of a child table whose module_id matches no
\* pv_modules.id (LEFT JOIN ... WHERE m.id IS NULL), as the issues reported
Orphans(d, table) ==
    {[table |-> table, id |-> c.id, module_id |-> c.module_id]
       : c \in {x \in d[table] : \A m \in d.pv_modules : m.id # x.module_id}}

\* database.py:1016-1042
FindOrphanedRecords ==
    /\ \E certs \in Orderings(Orphans(db, "certifications")) :
         \E raws \in Orderings(Orphans(db, "raw_pan_data")) :
            last' = [op |-> "find_orphaned_records", ret |-> certs \o raws]
    /\ UNCHANGED <<fs, registry, results, db, upserted, edits, dec_in, dec_out, doc, run>>

\* =====================================================================

\* The registry document: save_registry and load_registry
\* =====================================================================
\* JSON values
JStr(s) == [j |-> "str", v |-> s]
JNum(n) == [j |-> "num", v |-> n]
JBool(b) == [j |-> "bool", v |-> b]
JObject(o) == [j |-> "object", v |-> o]

\* The states of registry_file
MissingDoc == [kind |-> "missing"]          \* no such file
UnreadableDoc == [kind |-> "unreadable"]    \* the file exists, open() raises
GarbageDoc == [kind |-> "garbage"]          \* text that is not JSON: empty, or cut short
ListDoc == [kind |-> "list"]                \* valid JSON whose top level is not an object
JsonDoc(data) == [kind |-> "object", data |-> data]    \* a JSON object: key -> value

\* str(path) and Path(text)
RECURSIVE PathStr(_)
PathStr(p) == IF Len(p) <= 1 THEN p ELSE <<Head(p), "/">> \o PathStr(Tail(p))

ParsePath(s) == LET parts == SplitAll(s, "/") IN [i \in 1..Len(parts) |-> parts[i][1]]

\* v.dict() written by json.dump(..., default=str) (parser.py:157-161)
DumpEntry(e) ==
    JObject([file_path |-> JStr(PathStr(e.file_path)), file_hash |-> JStr(e.file_hash),
             file_size |-> JNum(e.file_size), success |-> JBool(e.success),
             error_message |-> JStr(e.error_message)])

\* parser.py:154-163: the document a completed save_registry leaves
SaveRegistry(reg) == JsonDoc([k \in DOMAIN reg |-> DumpEntry(reg[k])])

\* save_registry on the document d: open(..., 'w') on a file that cannot be
\* opened may raise as well, and the exception is swallowed (parser.py:162-163)
SaveOutcomes(d, reg) ==
    IF d.kind = "unreadable" THEN {d, SaveRegistry(reg)} ELSE {SaveRegistry(reg)}

\* ParsedFileRegistry(**v) (models.py:224-240): the entry, or the empty set when
\* the call raises
ValidateEntry(v) ==
    IF /\ v.j = "object"
       /\ {"file_path", "file_hash", "file_size", "success"} \subseteq DOMAIN v.v
       /\ v.v.file_path.j = "str"
       /\ v.v.file_hash.j = "str"
       /\ v.v.file_size.j = "num"
       /\ v.v.success.j = "bool"
    THEN {[file_path |-> ParsePath(v.v.file_path.v), file_hash |-> v.v.file_hash.v,
           file_size |-> v.v.file_size.v, success |-> v.v.success.v,
           error_message |-> IF "error_message" \in DOMAIN v.v
                             THEN v.v.error_message.v ELSE ""]}
    ELSE {}

\* Faulty variant of LoadRegistry: malformed entries are left out, the others kept.
LoadRegistryKeepingValid(d) ==
    IF d.kind # "object" THEN EmptyMap
    ELSE [k \in {x \in DOMAIN d.data : ValidateEntry(d.data[x]) # {}} |->
             CHOOSE e \in ValidateEntry(d.data[k]) : TRUE]

\* parser.py:139-152: the registry in memory after load_registry
LoadRegistry(d) ==
    IF d.kind = "missing" THEN EmptyMap                       \* else branch, line 152
    ELSE IF d.kind \in {"unreadable", "garbage", "list"}
    THEN EmptyMap                                             \* except branch, line 150
    ELSE IF \E k \in DOMAIN d.data : ValidateEntry(d.data[k]) = {}
    THEN EmptyMap                                             \* the comprehension raised
    ELSE [k \in DOMAIN d.data |-> CHOOSE e \in ValidateEntry(d.data[k]) : TRUE]

\* =====================================================================
\* parse_directory, a crash of the process, and bulk_insert_from_parser_results
\* =====================================================================
\* The registry is saved after every FlushEvery-th file (parser.py:503)
FlushEvery == 10

\* The largest number of .pan files under base_directory
MaxFiles == 11

\* The content of the i-th file of a directory
BatchContents == <<"c1", "c2", "cBad", "cEmpty", "c1x">>
BatchContent(i) == BatchContents[((i - 1) % Len(BatchContents)) + 1]

\* The directory holding the first n paths
Directory(n) == [p \in {BatchPaths[i] : i \in 1..n} |->
                    BatchContent(CHOOSE i \in 1..n : BatchPaths[i] = p)]

\* parser.py:176-190
InDirectory(p) == p \in DOMAIN fs /\ fs[p] # MISSING
ScanDirectory == SelectSeq(BatchPaths, InDirectory)

Idle == [phase |-> "idle"]

\* parser.py:488-494: the files scheduled; max_files None or 0 puts no limit
ParseDirectoryStart(max_files) ==
    /\ run.phase = "idle"
    /\ LET all_files == ScanDirectory
           new_files == SelectSeq(all_files, NeedsProcessing)
           scheduled == IF max_files # 0 /\ max_files < Len(new_files)
                        THEN SubSeq(new_files, 1, max_files) ELSE new_files
       IN /\ run' = [phase |-> "running", new_files |-> scheduled, i |-> 0,
                     results |-> EmptyMap]
          /\ last' = [op |-> "scan", all_files |-> all_files, new_files |-> scheduled]
    /\ UNCHANGED <<fs, registry, results, db, upserted, edits, dec_in, dec_out, doc>>

\* parser.py:498-504: one iteration of the loop
ProcessFile ==
    /\ run.phase = "running"
    /\ run.i < Len(run.new_files)
    /\ \E i \in {run.i + 1} : \E p \in {run.new_files[i]} : \E out \in {ParseFileOutcome(p)} :
          /\ registry' = out.registry
          /\ run' = [run EXCEPT !.i = i, !.results = MapSet(run.results, p, out.result)]
          /\ IF i % FlushEvery = 0
             THEN doc' \in SaveOutcomes(doc, out.registry)
             ELSE doc' = doc
          /\ last' = [op |-> "process_file", path |-> p, i |-> i]
    /\ UNCHANGED <<fs, results, db, upserted, edits, dec_in, dec_out>>

\* parser.py:506-508: the final save and the return
ParseDirectoryReturn ==
    /\ run.phase = "running"
    /\ run.i = Len(run.new_files)
    /\ doc' \in SaveOutcomes(doc, registry)
    /\ run' = [phase |-> "done", new_files |-> run.new_files, results |-> run.results]
    /\ last' = [op |-> "parse_directory", scheduled |-> run.new_files, ret |-> run.results]
    /\ UNCHANGED <<fs, registry, results, db, upserted, edits, dec_in, dec_out>>

\* The process is killed between two statements of the loop: memory is lost,
\* the document stays as the last save_registry left it.
Crash ==
    /\ run.phase = "running"
    /\ registry' = EmptyMap
    /\ run' = [phase |-> "crashed"]
    /\ last' = [op |-> "crash", memory |-> registry, on_disk |-> LoadRegistry(doc),
                in_flush |-> FALSE]
    /\ UNCHANGED <<fs, results, db, upserted, edits, dec_in, dec_out, doc>>

\* The process is killed inside save_registry, after open(..., 'w') truncated
\* the document and before json.dump completed (parser.py:160-161): in the
\* save after the FlushEvery-th file or in the final save.
CrashDuringFlush ==
    /\ run.phase = "running"
    /\ doc.kind # "unreadable"
    /\ LET atEnd == run.i = Len(run.new_files)
           memory == IF atEnd THEN registry
                     ELSE ParseFileOutcome(run.new_files[run.i + 1]).registry
       IN /\ atEnd \/ (run.i + 1) % FlushEvery = 0
          /\ last' = [op |-> "crash", memory |-> memory, on_disk |-> LoadRegistry(doc),
                      in_flush |-> TRUE]
    /\ doc' = GarbageDoc
    /\ registry' = EmptyMap
    /\ run' = [phase |-> "crashed"]
    /\ UNCHANGED <<fs, results, db, upserted, edits, dec_in, dec_out>>

\* PANFileParser(...) constructed again (parser.py:133-137)
LoadRegistryAgain ==
    /\ run.phase \in {"crashed", "done"}
    /\ registry' = LoadRegistry(doc)
    /\ run' = Idle
    /\ last' = [op |-> "load_registry"]
    /\ UNCHANGED <<fs, results, db, upserted, edits, dec_in, dec_out, doc>>

NoCounts == [inserted |-> 0, updated |-> 0, skipped |-> 0, failed |-> 0]

\* Faulty variant of CountUpdated: the update is counted before insert_module
\* is called.
CountUpdatedBeforeCall(counts, exc) ==
    IF exc # "none"
    THEN [counts EXCEPT !.updated = @ + 1, !.failed = @ + 1]
    ELSE [counts EXCEPT !.updated = @ + 1]

\* database.py:903-905, 910-912: updated += 1 follows the call, which may raise
CountUpdated(counts, exc) ==
    IF exc # "none"
    THEN [counts EXCEPT !.failed = @ + 1]
    ELSE [counts EXCEPT !.updated = @ + 1]

\* database.py:899-914: one iteration over results.items().  insert_module is
\* called with update_if_exists=True when the module exists and update_existing
\* is set, with update_if_exists=False when it does not exist, and not at all
\* otherwise.
BulkStep(st, result, update_existing) ==
    IF ~result.success
    THEN [st EXCEPT !.counts.failed = @ + 1]
    ELSE
    With(ModuleExists(st.db, UniqueId(result.module)),
         LAMBDA exists :
           IF exists /\ ~update_existing
           THEN [st EXCEPT !.counts.skipped = @ + 1]
           ELSE With(InsertModuleOutcome(st.db, result.module, exists, 0),
                     LAMBDA out :
                       IF exists
                       THEN [db |-> out.db, counts |-> CountUpdated(st.counts, out.exc),
                             upserted |-> MapSet(st.upserted, UniqueId(result.module),
                                                 result.module)]
                       ELSE IF out.exc # "none"
                       THEN [st EXCEPT !.db = out.db, !.counts.failed = @ + 1]
                       ELSE [st EXCEPT !.db = out.db, !.counts.inserted = @ + 1]))

\* the loop over results.items(), in insertion order
RECURSIVE BulkLoop(_, _, _, _, _)
BulkLoop(st, keys, res, update_existing, i) ==
    IF i > Len(keys) THEN st
    ELSE BulkLoop(BulkStep(st, res[keys[i]], update_existing), keys, res,
                  update_existing, i + 1)

\* database.py:880-920 on the dict parse_directory returned
BulkInsertFromParserResults(update_existing) ==
    /\ run.phase = "done"
    /\ \E fin \in {BulkLoop([db |-> db, counts |-> NoCounts, upserted |-> upserted],
                             run.new_files, run.results, update_existing, 1)} :
          /\ db' = fin.db
          /\ upserted' = fin.upserted
          /\ last' = [op |-> "bulk_insert", results |-> run.results,
                      update_existing |-> update_existing,
                      ret |-> [inserted |-> fin.counts.inserted,
                               updated |-> fin.counts.updated,
                               skipped |-> fin.counts.skipped,
                               failed |-> fin.counts.failed,
                               total |-> Cardinality(DOMAIN run.results)]]
    /\ UNCHANGED <<fs, registry, results, edits, dec_in, dec_out, doc, run>>

\* ----------------------------------------------------------------- initial state
\* What an earlier run stored for a module: its row and its raw-data rows.
StoredAs(module) ==
    LET row == MakeRow(1, UniqueId(module), RowValues(module))
        d1 == [EmptyDb EXCEPT !.pv_modules = {row}, !.seq.pv_modules = 1]
    IN InsertRawData(InsertCertifications(d1, 1, module.certification_info), 1, module.raw_data)

ModuleOf(p, c) == MappedText[p][c].module

\* The database file found at db_path when the repository is constructed
\* (init_database keeps existing tables: CREATE TABLE IF NOT EXISTS).
InitDbs == {EmptyDb, StoredAs(ModuleOf(P1, "c1")), StoredAs(ModuleOf(P1, "c2"))}

\* The registry document found when the parser is constructed (parser.py:139-152).
InitRegistries ==
    {EmptyMap,
     [x \in {P1} |-> [file_path |-> P1, file_hash |-> Sha256("c1"), file_size |-> StSize("c1"),
                      success |-> TRUE, error_message |-> ""]],
     [x \in {P1} |-> [file_path |-> P1, file_hash |-> Sha256("c1"), file_size |-> StSize("c1") - 1,
                      success |-> TRUE, error_message |-> ""]]}

Init ==
    /\ fs = [p \in Paths |-> "c1"]
    /\ registry \in InitRegistries
    /\ results = [p \in Paths |-> {}]
    /\ db \in InitDbs
    /\ upserted = EmptyMap
    /\ edits = 0
    /\ last = [op |-> "init"]
    /\ doc = MissingDoc
    /\ run = Idle
    /\ dec_in = <<>>
    /\ dec_out = NotRun

Next ==
    \/ \E fl \in FileLists : GetNewFiles(fl)
    \/ \E p \in Paths : ParseFile(p)
    \/ \E p \in Paths, c \in Contents \cup {MISSING} : ModifyFile(p, c)
    \/ \E p \in Paths, u \in BOOLEAN, f \in Faults : InsertModule(p, u, f)
    \/ ClearDatabase
    \/ FindOrphanedRecords

Spec == Init /\ [][Next]_vars

\* =====================================================================
\* Decoder check: parse_pan_structure applied to every text of up to MaxLines
\* lines of LinePool
\* =====================================================================
InitDecoder ==
    /\ dec_in \in SeqsUpTo(LinePool, MaxLines)
    /\ dec_out = NotRun
    /\ fs = [p \in Paths |-> "c1"]
    /\ registry = EmptyMap
    /\ results = [p \in Paths |-> {}]
    /\ db = EmptyDb
    /\ upserted = EmptyMap
    /\ edits = 0
    /\ last = [op |-> "init"]
    /\ doc = MissingDoc
    /\ run = Idle

Decode ==
    /\ dec_out = NotRun
    /\ dec_out' = ParsePanStructure(dec_in)
    /\ UNCHANGED <<dec_in, fs, registry, results, db, upserted, edits, last, doc, run>>

NextDecoder == Decode

SpecDecoder == InitDecoder /\ [][NextDecoder]_vars

\* =====================================================================
\* Mapper check: parse_pan_structure followed by map_pan_data, applied to every
\* text made of a pvModule block holding up to MaxFragments fragments
\* =====================================================================
MaxFragments == 2

\* A nested block: PVObject_<name>=pv<name>, the lines, End of PVObject
Block(name, lines) ==
    << <<PFX, name, EQ, "pv">> >> \o lines \o << <<ENDMARK, SP, "pv">> >>

Fragments ==
    { << <<"muVocSpec", EQ, "1">> >>,
      << <<"muVocSpec", EQ, "200">> >>,
      << <<"muVocSpec", EQ, "abc">> >>,
      << <<"Voc", EQ, "2">> >>,
      << <<"Voc", EQ, "0">> >>,
      << <<"NCelS", EQ, "2">> >>,
      << <<"NCelP", EQ, "2">> >>,
      << <<"NCelP", EQ, "abc">> >>,
      << <<"Height", EQ, "1", COMMA, "134">> >>,
      << <<"Height", EQ, "2">> >>,
      << <<"Width", EQ, "1">> >>,
      << <<"Technol", EQ, "mtSiPoly">> >>,
      << <<"Technol", EQ, "zzz">> >>,
      << <<"Technol", EQ, "a", COMMA, "b">> >>,
      Block("Commercial", << <<"Width", EQ, "2">>, <<"Model", EQ, "X">> >>),
      Block("Commercial", << <<"Height", EQ, "1">>, <<"muVocSpec", EQ, "400">> >>),
      Block("IAM", << <<"Point_1", EQ, "0", COMMA, "1">>,
                      <<"Point_2", EQ, "5", COMMA, "2">> >>),
      Block("IAM", << <<"Point_1", EQ, "0", COMMA, "abc">>,
                      <<"Point_7", EQ, "30", COMMA, SP, "2">> >>),
      Block("IAM", << <<"Point_7", EQ, "30">>,
                      <<"Point_9", EQ, "40", COMMA, "1">> >>) }

RECURSIVE Concat(_)
Concat(ss) == IF ss = <<>> THEN <<>> ELSE Head(ss) \o Concat(Tail(ss))

MapperTexts ==
    { << <<PFX, EQ, "pvModule">> >> \o Concat(fr) \o << <<ENDMARK, SP, "pvModule">> >> :
        fr \in SeqsUpTo(Fragments, MaxFragments) }

\* parser.py:456-468: decode, give up on an empty tree, else map
DecodeAndMap(text, path, c) ==
    LET decoded == ParsePanStructure(text)
        mm == ExtractManufacturerModelFromPath(path)
    IN IF decoded.raised # "none" THEN [raised |-> decoded.raised]
       ELSE IF decoded.tree = EmptyDict THEN [raised |-> "empty"]
       ELSE MapPanData(decoded.tree, mm[1], mm[2], CreateFileMetadata(path, c, mm[1], mm[2]))

InitMapper ==
    /\ dec_in \in MapperTexts
    /\ dec_out = NotRun
    /\ fs = [p \in Paths |-> "c1"]
    /\ registry = EmptyMap
    /\ results = [p \in Paths |-> {}]
    /\ db = EmptyDb
    /\ upserted = EmptyMap
    /\ edits = 0
    /\ last = [op |-> "init"]
    /\ doc = MissingDoc
    /\ run = Idle

MapText ==
    /\ dec_out = NotRun
    /\ dec_out' = DecodeAndMap(dec_in, P1, "c1")
    /\ UNCHANGED <<dec_in, fs, registry, results, db, upserted, edits, last, doc, run>>

NextMapper == MapText

SpecMapper == InitMapper /\ [][NextMapper]_vars

\* The decoded pvModule dict of the text being mapped
MapperRoot == ParsePanStructure(dec_in).tree[<<>>].v

\* =====================================================================

\* parse_file statement by statement, with an environment that rewrites the
\* file between two of its file accesses (parser.py:437-480)
\* =====================================================================
MaxRewrites == 2

\* The environment replaces the content of the file.
Rewrite(p, c) ==
    /\ edits < MaxRewrites
    /\ fs[p] # MISSING
    /\ c # fs[p]
    /\ fs' = [fs EXCEPT ![p] = c]
    /\ edits' = edits + 1
    /\ UNCHANGED <<registry, results, db, upserted, last, dec_in, dec_out, doc, run>>

\* parser.py:440-456: read_pan_file and parse_pan_structure.  An empty tree ends
\* the call with no registry update; an exception goes to the except branch.
ReadAndDecode(p) ==
    /\ run = Idle
    /\ fs[p] # MISSING
    /\ \E decoded \in {DecodedText[fs[p]]} :
         IF decoded.raised = "none" /\ decoded.tree = EmptyDict
         THEN /\ last' = [op |-> "parse_file", path |-> p, read |-> fs[p],
                          result |-> [success |-> FALSE,
                                      error_message |-> "Failed to parse file structure"]]
              /\ UNCHANGED run
         ELSE /\ run' = [phase |-> "parse_file", path |-> p, content |-> fs[p],
                         pc |-> IF decoded.raised = "none" THEN "metadata_stat"
                                ELSE "registry_stat",
                         success |-> FALSE, error |-> decoded.raised,
                         size |-> 0, hash |-> <<>>, registry_size |-> 0]
              /\ UNCHANGED last
    /\ UNCHANGED <<fs, registry, results, db, upserted, edits, dec_in, dec_out, doc>>

\* parser.py:411  stat = file_path.stat()   in create_file_metadata
MetadataStat ==
    /\ run.phase = "parse_file" /\ run.pc = "metadata_stat"
    /\ run' = [run EXCEPT !.size = CurrentSize(run.path), !.pc = "metadata_hash"]
    /\ UNCHANGED <<fs, registry, results, db, upserted, edits, last, dec_in, dec_out, doc>>

\* parser.py:416  calculate_file_hash in create_file_metadata, then map_pan_data
\* on the tree decoded from the content that was read (parser.py:462)
MetadataHashAndMap ==
    /\ run.phase = "parse_file" /\ run.pc = "metadata_hash"
    /\ \E mapped \in {MappedText[run.path][run.content]} :
         run' = [run EXCEPT !.hash = CurrentHash(run.path), !.pc = "registry_stat",
                            !.success = (mapped.raised = "none"),
                            !.error = IF mapped.raised = "none" THEN "" ELSE mapped.raised]
    /\ UNCHANGED <<fs, registry, results, db, upserted, edits, last, dec_in, dec_out, doc>>

\* parser.py:425  stat = file_path.stat()   in update_registry
RegistryStat ==
    /\ run.phase = "parse_file" /\ run.pc = "registry_stat"
    /\ run' = [run EXCEPT !.registry_size = CurrentSize(run.path), !.pc = "registry_hash"]
    /\ UNCHANGED <<fs, registry, results, db, upserted, edits, last, dec_in, dec_out, doc>>

\* The module returned: mapped from the content read, its metadata from the
\* stat and the hash taken by create_file_metadata
ModuleReturned(r) ==
    [MappedText[r.path][r.content].module EXCEPT
        !.file_metadata.file_size = r.size, !.file_metadata.file_hash = r.hash]

\* parser.py:426-435 and 467-480: the hash is computed, the entry stored and the
\* result returned
RegistryHashAndReturn ==
    /\ run.phase = "parse_file" /\ run.pc = "registry_hash"
    /\ registry' = MapSet(registry, run.path,
                          [file_path |-> run.path, file_hash |-> CurrentHash(run.path),
                           file_size |-> run.registry_size, success |-> run.success,
                           error_message |-> run.error])
    /\ last' = [op |-> "parse_file", path |-> run.path, read |-> run.content,
                result |-> IF run.success
                           THEN [success |-> TRUE, module |-> ModuleReturned(run)]
                           ELSE [success |-> FALSE, error_message |-> run.error]]
    /\ run' = Idle
    /\ UNCHANGED <<fs, results, db, upserted, edits, dec_in, dec_out, doc>>

InitRace ==
    /\ fs \in {[p \in Paths |-> IF p = P1 THEN c ELSE "c1"] : c \in Contents}
    /\ registry = EmptyMap
    /\ results = [p \in Paths |-> {}]
    /\ db = EmptyDb
    /\ upserted = EmptyMap
    /\ edits = 0
    /\ last = [op |-> "init"]
    /\ dec_in = <<>>
    /\ dec_out = NotRun
    /\ doc = MissingDoc
    /\ run = Idle

NextRace ==
    \/ \E c \in Contents : Rewrite(P1, c)
    \/ ReadAndDecode(P1)
    \/ MetadataStat
    \/ MetadataHashAndMap
    \/ RegistryStat
    \/ RegistryHashAndReturn

SpecRace == InitRace /\ [][NextRace]_vars

\* =====================================================================

\* Queries: search_modules and get_statistics
\* =====================================================================
\* str.lower(), and SQLite's case folding of identifiers and LIKE operands
Lower(tok) ==
    CASE tok = "DESC" -> "desc" [] tok = "Desc" -> "desc" [] tok = "ASC" -> "asc"
      [] tok = "None" -> "none" [] tok = "PMAX_STC" -> "pmax_stc"
      [] tok = "Acme" -> "acme" [] tok = "Bolt" -> "bolt" [] tok = "Bo" -> "bo"
      [] tok = "M1" -> "m1" [] tok = "M2" -> "m2" [] tok = "X" -> "x"
      [] OTHER -> tok

\* needle is a proper substring of text (both lower case)
ProperSubstrings ==
    {<<"ac", "acme">>, <<"bo", "bolt">>, <<"m", "m1">>, <<"m", "m2">>, <<"m", "acme">>}

\* text LIKE '%needle%'
LikeContains(text, needle) ==
    \/ Lower(needle) = Lower(text)
    \/ <<Lower(needle), Lower(text)>> \in ProperSubstrings

\* SQLite's BINARY collation on the texts the rows hold
BinaryOrder ==
    <<"Acme", "Bolt", "M1", "M2", "X", "acme", "bifacial", "monocrystalline",
      "polycrystalline", "standard", "unknown">>
Rank(tok) == CHOOSE i \in 1..Len(BinaryOrder) : BinaryOrder[i] = tok

\* SQLite's order of values: NULL, then numbers, then text
TypeClass(v) == CASE v.t = "null" -> 0 [] v.t = "real" -> 1 [] OTHER -> 2
SqlLess(a, b) ==
    IF TypeClass(a) # TypeClass(b) THEN TypeClass(a) < TypeClass(b)
    ELSE CASE a.t = "real" -> a.n * b.d < b.n * a.d
           [] a.t = "text" -> Rank(a.s[1]) < Rank(b.s[1])
           [] OTHER -> FALSE

\* one WHERE term "column op ?" on a row value; a NULL operand is not true
SqlTest(v, op, param) ==
    IF v.t = "null" \/ param.t = "null" THEN FALSE
    ELSE CASE op = ">=" -> ~SqlLess(v, param)
           [] op = "<=" -> ~SqlLess(param, v)
           [] op = ">" -> SqlLess(param, v)
           [] op = "<" -> SqlLess(v, param)
           [] op = "=" -> v = param
           [] OTHER -> /\ v.t = "text" /\ param.t = "text" /\ Len(param.s) = 3
                       /\ LikeContains(v.s[1], param.s[2])

Columns ==
    {"id", "unique_id", "manufacturer", "model", "pmax_stc", "vmp_stc", "imp_stc",
     "voc_stc", "isc_stc", "height", "width", "cell_type", "module_type",
     "efficiency_stc", "power_density", "area_m2", "file_path", "file_hash", "file_size"}

\* database.py:442
SelectAll == <<"SELECT * FROM pv_modules WHERE 1=1">>

\* Faulty variant of MinPowerClause: the lower bound is exclusive.
MinPowerClauseStrict == <<" AND", "pmax_stc", ">", "?">>

\* database.py:454
MinPowerClause == <<" AND", "pmax_stc", ">=", "?">>

\* database.py:458
MaxPowerClause == <<" AND", "pmax_stc", "<=", "?">>

\* Faulty variant of InAllowedSort: every sort_by is let through.
AnySortAllowed(sort_by) == TRUE

\* database.py:494-498
AllowedSort ==
    {"pmax_stc", "efficiency_stc", "voc_stc", "isc_stc", "vmp_stc", "imp_stc",
     "manufacturer", "model"}
InAllowedSort(sort_by) == sort_by.k = "str" /\ sort_by.v \in {<<c>> : c \in AllowedSort}

\* database.py:498-502
OrderClause(sort_by, sort_order) ==
    IF InAllowedSort(sort_by)
    THEN LET s == PyStr(sort_order)
             order == IF Len(s) = 1 /\ Lower(s[1]) = "desc" THEN "DESC" ELSE "ASC"
         IN <<" ORDER BY">> \o PyStr(sort_by) \o <<order>>
    ELSE <<" ORDER BY", "pmax_stc", "DESC">>

\* database.py:442-506: the statement as a sequence of fragments, and its params
SearchQuery(a) ==
    LET terms ==
          << [on |-> Truthy(a.manufacturer), frag |-> <<" AND", "manufacturer", "LIKE", "?">>,
              param |-> IF Truthy(a.manufacturer)
                        THEN TextV(<<"%">> \o PyStr(a.manufacturer) \o <<"%">>) ELSE NullV],
             [on |-> Truthy(a.model), frag |-> <<" AND", "model", "LIKE", "?">>,
              param |-> IF Truthy(a.model)
                        THEN TextV(<<"%">> \o PyStr(a.model) \o <<"%">>) ELSE NullV],
             [on |-> a.min_power.k # "none", frag |-> MinPowerClause, param |-> Bind(a.min_power)],
             [on |-> a.max_power.k # "none", frag |-> MaxPowerClause, param |-> Bind(a.max_power)],
             [on |-> a.min_efficiency.k # "none", frag |-> <<" AND", "efficiency_stc", ">=", "?">>,
              param |-> Bind(a.min_efficiency)],
             [on |-> a.max_efficiency.k # "none", frag |-> <<" AND", "efficiency_stc", "<=", "?">>,
              param |-> Bind(a.max_efficiency)],
             [on |-> Truthy(a.cell_type), frag |-> <<" AND", "cell_type", "=", "?">>,
              param |-> Bind(a.cell_type)],
             [on |-> Truthy(a.module_type), frag |-> <<" AND", "module_type", "=", "?">>,
              param |-> Bind(a.module_type)],
             [on |-> a.min_height.k # "none", frag |-> <<" AND", "height", ">=", "?">>,
              param |-> Bind(a.min_height)],
             [on |-> a.max_height.k # "none", frag |-> <<" AND", "height", "<=", "?">>,
              param |-> Bind(a.max_height)],
             [on |-> a.min_width.k # "none", frag |-> <<" AND", "width", ">=", "?">>,
              param |-> Bind(a.min_width)],
             [on |-> a.max_width.k # "none", frag |-> <<" AND", "width", "<=", "?">>,
              param |-> Bind(a.max_width)],
             [on |-> TRUE, frag |-> OrderClause(a.sort_by, a.sort_order), param |-> NullV],
             [on |-> Truthy(a.limit), frag |-> <<" LIMIT", "?">>, param |-> Bind(a.limit)] >>
    IN With(SelectSeq(terms, LAMBDA t : t.on),
            LAMBDA used :
              With(SelectSeq(used, LAMBDA t : t.frag[1] # " ORDER BY"),
                   LAMBDA bound :
                     [query |-> <<SelectAll>> \o [i \in 1..Len(used) |-> used[i].frag],
                      params |-> [i \in 1..Len(bound) |-> bound[i].param]]))

\* the orders of the rows S that ORDER BY col dir allows (rows that tie on col
\* come in any order)
Sorted(S, col, dir) ==
    LET n == Cardinality(S) IN
    {s \in [1..n -> S] :
        /\ \A i, j \in 1..n : i # j => s[i] # s[j]
        /\ \A i, j \in 1..n :
              i < j => IF dir = "DESC" THEN ~SqlLess(s[i][col], s[j][col])
                       ELSE ~SqlLess(s[j][col], s[i][col])}

\* LIMIT n
Limited(s, n) ==
    IF n.t = "real" /\ n.n < Len(s) * n.d THEN SubSeq(s, 1, n.n \div n.d) ELSE s

\* the rows of d that pass every WHERE term
Selected(d, where, params) ==
    {r \in d.pv_modules :
        \A i \in 1..Len(where) : SqlTest(r[where[i][2]], where[i][3], params[i])}

\* database.py:508-509: SQLite's answer to the statement: an error, or the
\* possible row lists
RunQuery(d, query, params) ==
    With(<<SelectSeq(query, LAMBDA f : f[1] = " AND"),
           SelectSeq(query, LAMBDA f : f[1] = " ORDER BY")[1],
           SelectSeq(query, LAMBDA f : f[1] = " LIMIT")>>,
         LAMBDA c :
           IF Len(c[2]) # 3 \/ Lower(c[2][2]) \notin Columns \/ c[2][3] \notin {"ASC", "DESC"}
           THEN [exc |-> "sqlite3.Error", rows |-> {}]
           ELSE With(Selected(d, c[1], params),
                     LAMBDA keep :
                       [exc |-> "none",
                        rows |-> {IF c[3] = <<>> THEN s ELSE Limited(s, params[Len(params)])
                                    : s \in Sorted(keep, Lower(c[2][2]), c[2][3])}]))

\* database.py:402-417: the arguments and their defaults
DefaultArgs ==
    [manufacturer |-> NoneV, model |-> NoneV, min_power |-> NoneV, max_power |-> NoneV,
     min_efficiency |-> NoneV, max_efficiency |-> NoneV, cell_type |-> NoneV,
     module_type |-> NoneV, min_height |-> NoneV, max_height |-> NoneV,
     min_width |-> NoneV, max_width |-> NoneV, sort_by |-> NoneV,
     sort_order |-> StrNode(<<"desc">>), limit |-> NoneV]

\* database.py:438-509: the statement issued and SQLite's answer
SearchOutcome(d, a) ==
    With(SearchQuery(a),
         LAMBDA q :
           With(RunQuery(d, q.query, q.params),
                LAMBDA out :
                  [query |-> q.query, params |-> q.params, exc |-> out.exc, rows |-> out.rows]))

\* sums and averages of SQL reals
AddReal(a, b) == Frac(a.n * b.d + b.n * a.d, a.d * b.d)
RECURSIVE SumReal(_)
SumReal(S) ==
    IF S = <<>> THEN Real(0, 1) ELSE AddReal(Head(S), SumReal(Tail(S)))

\* database.py:556-575, 591-596: MIN, MAX and AVG of a column over its non-NULL
\* values, 0.0 where there is none
ColumnStats(d, col) ==
    LET rows == SetToSeq({r \in d.pv_modules : r[col] # NullV})
        vals == [i \in 1..Len(rows) |-> rows[i][col]]
        total == SumReal(vals)
    IN IF vals = <<>> THEN [min |-> Real(0, 1), max |-> Real(0, 1), avg |-> Real(0, 1)]
       ELSE [min |-> CHOOSE v \in Range(vals) : \A w \in Range(vals) : ~SqlLess(w, v),
             max |-> CHOOSE v \in Range(vals) : \A w \in Range(vals) : ~SqlLess(v, w),
             avg |-> Frac(total.n, total.d * Len(vals))]

\* database.py:549-550
TotalModules(d) == Cardinality(d.pv_modules)

\* database.py:552-553
TotalManufacturers(d) == Cardinality({r.manufacturer : r \in d.pv_modules} \ {NullV})

\* database.py:587-588
TotalModels(d) == Cardinality({r.model : r \in d.pv_modules} \ {NullV})

\* Faulty variant of CellTypeDistribution: each cell type is counted once.
CellTypeDistributionDistinct(d) ==
    [c \in {r.cell_type : r \in d.pv_modules} |-> 1]

\* database.py:578-584: GROUP BY cell_type, as a dict
CellTypeDistribution(d) ==
    [c \in {r.cell_type : r \in d.pv_modules} |->
        Cardinality({r \in d.pv_modules : r.cell_type = c})]

\* database.py:598-614
Statistics(d) ==
    LET power == ColumnStats(d, "pmax_stc")
        eff == ColumnStats(d, "efficiency_stc")
    IN [total_modules |-> TotalModules(d),
        total_manufacturers |-> TotalManufacturers(d),
        total_models |-> TotalModels(d),
        min_power |-> power.min, max_power |-> power.max, avg_power |-> power.avg,
        min_efficiency |-> eff.min, max_efficiency |-> eff.max, avg_efficiency |-> eff.avg,
        power_range |-> power, efficiency_range |-> eff,
        cell_type_distribution |-> CellTypeDistribution(d)]

\* database.py:543-614
GetStatistics ==
    /\ last' = [op |-> "get_statistics", ret |-> Statistics(db)]
    /\ UNCHANGED <<fs, registry, results, db, upserted, edits, dec_in, dec_out, doc, run>>

\* ------------------------------------------------------------ distributions
\* floor(x / (b/q)) and ceil(x / (b/q)) of a real x >= 0, for a bin size b/q
FloorDiv(x, b, q) == (x.n * q) \div (x.d * b)
CeilDiv(x, b, q) == (x.n * q + x.d * b - 1) \div (x.d * b)

\* hi - lo <= k
SpanAtMost(lo, hi, k) == hi.n * lo.d - lo.n * hi.d <= k * hi.d * lo.d

\* The non-NULL values of a column, and SELECT MIN(col), MAX(col) over them
NonNull(d, col) == {r \in d.pv_modules : r[col] # NullV}
MinOf(d, col) == CHOOSE v \in {r[col] : r \in NonNull(d, col)} :
                    \A r \in NonNull(d, col) : ~SqlLess(r[col], v)
MaxOf(d, col) == CHOOSE v \in {r[col] : r \in NonNull(d, col)} :
                    \A r \in NonNull(d, col) : ~SqlLess(v, r[col])

\* database.py:698-708 and 739-751: nbins bins of size b/q from first * b/q on,
\* each value counted in bin int((value - start) // bin_size) when there is one
Bins(d, col, b, q, first, nbins) ==
    [i \in 1..nbins |->
        [lo |-> Frac((first + i - 1) * b, q), hi |-> Frac((first + i) * b, q),
         count |-> Cardinality({r \in NonNull(d, col) :
                                   FloorDiv(r[col], b, q) - first = i - 1})]]

\* database.py:686-693
PowerBinSize(lo, hi) ==
    IF SpanAtMost(lo, hi, 500) THEN 50 ELSE IF SpanAtMost(lo, hi, 1000) THEN 100 ELSE 200

\* database.py:726-733: 1 / EfficiencyBinsPerPoint is the bin size (0.25, 0.5, 1.0)
EfficiencyBinsPerPoint(lo, hi) ==
    IF SpanAtMost(lo, hi, 5) THEN 4 ELSE IF SpanAtMost(lo, hi, 10) THEN 2 ELSE 1

\* database.py:672-710 with bin_size = None
PowerRangeDistribution(d) ==
    IF NonNull(d, "pmax_stc") = {} THEN <<>>
    ELSE IF SpanAtMost(MinOf(d, "pmax_stc"), MaxOf(d, "pmax_stc"), 0) THEN <<>>
    ELSE With(<<MinOf(d, "pmax_stc"), MaxOf(d, "pmax_stc")>>,
              LAMBDA mm :
                With(PowerBinSize(mm[1], mm[2]),
                     LAMBDA b :
                       [i \in 1..(FloorDiv(mm[2], b, 1) + 1 - FloorDiv(mm[1], b, 1)) |->
                          With(Bins(d, "pmax_stc", b, 1, FloorDiv(mm[1], b, 1),
                                    FloorDiv(mm[2], b, 1) + 1 - FloorDiv(mm[1], b, 1))[i],
                               LAMBDA bin : [min_power |-> bin.lo, max_power |-> bin.hi,
                                             count |-> bin.count])]))

\* database.py:712-753 with bin_size = None
EfficiencyRangeDistribution(d) ==
    IF NonNull(d, "efficiency_stc") = {} THEN <<>>
    ELSE IF SpanAtMost(MinOf(d, "efficiency_stc"), MaxOf(d, "efficiency_stc"), 0) THEN <<>>
    ELSE With(<<MinOf(d, "efficiency_stc"), MaxOf(d, "efficiency_stc")>>,
              LAMBDA mm :
                With(EfficiencyBinsPerPoint(mm[1], mm[2]),
                     LAMBDA q :
                       [i \in 1..(CeilDiv(mm[2], 1, q) - FloorDiv(mm[1], 1, q)) |->
                          With(Bins(d, "efficiency_stc", 1, q, FloorDiv(mm[1], 1, q),
                                    CeilDiv(mm[2], 1, q) - FloorDiv(mm[1], 1, q))[i],
                               LAMBDA bin : [min_efficiency |-> bin.lo,
                                             max_efficiency |-> bin.hi,
                                             count |-> bin.count])]))

GetPowerRangeDistribution ==
    /\ last' = [op |-> "get_power_range_distribution", ret |-> PowerRangeDistribution(db)]
    /\ UNCHANGED <<fs, registry, results, db, upserted, edits, dec_in, dec_out, doc, run>>

GetEfficiencyRangeDistribution ==
    /\ last' = [op |-> "get_efficiency_range_distribution",
                ret |-> EfficiencyRangeDistribution(db)]
    /\ UNCHANGED <<fs, registry, results, db, upserted, edits, dec_in, dec_out, doc, run>>

\* ------------------------------------------------------------ stored modules
MaxRows == 3

\* A module as the mapper builds it, with the given name, model, power, height
\* and cell type
PoolModule(name, model, pmax, height, cell_type) ==
    [ModuleOf(P1, "c1") EXCEPT !.manufacturer_info.name = StrNode(<<name>>),
                               !.manufacturer_info.model = StrNode(<<model>>),
                               !.electrical_params.pmax_stc = pmax,
                               !.physical_params.height = NumV(height),
                               !.cell_type = cell_type,
                               !.raw_data = EmptyDict]

PoolModules ==
    << PoolModule("Acme", "M1", NumV(200), 1000, "polycrystalline"),
       PoolModule("Acme", "M2", NumV(300), 2000, "monocrystalline"),
       PoolModule("Bolt", "X", NumV(500), 2000, "polycrystalline"),
       PoolModule("acme", "M1", NoneV, 2000, "unknown"),
       PoolModule("Bolt", "M2", NumV(600), 3000, "monocrystalline") >>

\* the rows an earlier run stored for the pool modules
RowPool ==
    {MakeRow(i, UniqueId(PoolModules[i]), RowValues(PoolModules[i])) : i \in 1..Len(PoolModules)}

MaxId(S) == IF S = {} THEN 0 ELSE CHOOSE n \in {r.id : r \in S} : \A r \in S : r.id <= n

QueryDbs ==
    {[EmptyDb EXCEPT !.pv_modules = S, !.seq.pv_modules = MaxId(S)]
       : S \in {T \in SUBSET RowPool : Cardinality(T) <= MaxRows}}

\* the arguments the searches are made with
BoundPairs ==
    {<<NoneV, NoneV>>, <<NumV(300), NumV(500)>>, <<NumV(300), NoneV>>,
     <<NoneV, NumV(500)>>, <<NumV(500), NumV(300)>>}
ListedSortBys ==
    {StrNode(<<"pmax_stc">>), StrNode(<<"efficiency_stc">>), StrNode(<<"manufacturer">>),
     StrNode(<<"model">>)}
UnlistedSortBys ==
    {NoneV, StrNode(<<"PMAX_STC">>), StrNode(<<"height">>),
     StrNode(<<"pmax_stc; DROP TABLE pv_modules">>)}
SortOrders == {StrNode(<<"desc">>), StrNode(<<"asc">>), StrNode(<<"DESC">>), StrNode(<<"up">>), NoneV}

RangeSearches ==
    {[DefaultArgs EXCEPT !.min_power = NumV(300), !.max_power = NumV(500), !.sort_by = sb]
       : sb \in ListedSortBys \cup UnlistedSortBys}
    \cup
    {[DefaultArgs EXCEPT !.min_power = b[1], !.max_power = b[2], !.sort_by = sb]
       : b \in BoundPairs, sb \in {StrNode(<<"pmax_stc">>), NoneV}}
    \cup
    {[DefaultArgs EXCEPT !.min_power = NumV(300), !.max_power = NumV(500),
                         !.sort_by = sb, !.sort_order = so]
       : sb \in {StrNode(<<"manufacturer">>), NoneV,
                 StrNode(<<"pmax_stc; DROP TABLE pv_modules">>)},
         so \in SortOrders}

OtherSearches ==
    {[DefaultArgs EXCEPT !.manufacturer = StrNode(<<"ac">>)],
     [DefaultArgs EXCEPT !.manufacturer = StrNode(<<>>), !.model = StrNode(<<"m">>)],
     [DefaultArgs EXCEPT !.min_efficiency = NumV(20), !.sort_by = StrNode(<<"voc_stc">>)],
     [DefaultArgs EXCEPT !.max_efficiency = NumV(20), !.limit = NumV(1)],
     [DefaultArgs EXCEPT !.cell_type = StrNode(<<"monocrystalline">>), !.limit = NumV(0)],
     [DefaultArgs EXCEPT !.module_type = StrNode(<<"standard">>), !.sort_by = StrNode(<<"isc_stc">>)],
     [DefaultArgs EXCEPT !.min_height = NumV(2000), !.sort_by = StrNode(<<"vmp_stc">>)],
     [DefaultArgs EXCEPT !.max_height = NumV(1000), !.sort_by = StrNode(<<"imp_stc">>)],
     [DefaultArgs EXCEPT !.min_width = NumV(1000), !.limit = NumV(1),
                         !.sort_by = StrNode(<<"height">>)],
     [DefaultArgs EXCEPT !.max_width = NumV(400)]}

Searches == RangeSearches \cup OtherSearches

\* database.py:402-509
SearchModules(a) ==
    /\ \E out \in {SearchOutcome(db, a)} :
          \E ret \in (IF out.exc = "none" THEN out.rows ELSE {<<>>}) :
            last' = [op |-> "search_modules", args |-> a, query |-> out.query,
                     params |-> out.params, exc |-> out.exc, ret |-> ret]
    /\ UNCHANGED <<fs, registry, results, db, upserted, edits, dec_in, dec_out, doc, run>>

\* The repository opened on an existing database file, after parse_file(P1)
InitQuery ==
    /\ db \in QueryDbs
    /\ fs = [p \in Paths |-> "c1"]
    /\ registry = [x \in {P1} |-> RegistryEntry(P1, TRUE, "")]
    /\ results = [p \in Paths |-> IF p = P1 THEN {[success |-> TRUE, module |-> ModuleOf(P1, "c1")]}
                                ELSE {}]
    /\ upserted = EmptyMap
    /\ edits = 0
    /\ last = [op |-> "init"]
    /\ doc = MissingDoc
    /\ run = Idle
    /\ dec_in = <<>>
    /\ dec_out = NotRun

NextQuery ==
    \/ \E a \in Searches : SearchModules(a)
    \/ GetStatistics
    \/ GetPowerRangeDistribution
    \/ GetEfficiencyRangeDistribution
    \/ \E u \in BOOLEAN : InsertModule(P1, u, 0)
    \/ ClearDatabase

SpecQuery == InitQuery /\ [][NextQuery]_vars

\* =====================================================================
\* Batch runs: a directory of up to MaxFiles files, the registry document
\* found at start-up, parse_directory step by step, crashes and restarts
\* =====================================================================
StoredEntry(p, c) ==
    DumpEntry([file_path |-> p, file_hash |-> Sha256(c), file_size |-> StSize(c),
               success |-> TRUE, error_message |-> ""])

\* An entry without file_hash, and one whose file_size is not a number
EntryWithoutHash(p) ==
    JObject([file_path |-> JStr(PathStr(p)), file_size |-> JNum(60), success |-> JBool(TRUE)])

EntryWithTextSize(p, c) ==
    JObject([file_path |-> JStr(PathStr(p)), file_hash |-> JStr(Sha256(c)),
             file_size |-> JStr(<<"abc">>), success |-> JBool(TRUE)])

\* The registry documents found when the parser is constructed
InitDocs ==
    {MissingDoc, UnreadableDoc, GarbageDoc, ListDoc,
     JsonDoc([p \in {P1, BatchPaths[2]} |-> StoredEntry(p, IF p = P1 THEN "c1" ELSE "c2")]),
     JsonDoc([p \in {P1, BatchPaths[2]} |-> IF p = P1 THEN StoredEntry(p, "c1")
                                            ELSE EntryWithoutHash(p)]),
     JsonDoc([p \in {P1} |-> EntryWithTextSize(p, "c1")]),
     JsonDoc([p \in {P1} |-> JStr(<<"c1">>)])}

\* max_files as passed to parse_directory (0: None)
MaxFilesArgs == {0, 1, FlushEvery}

InitBatch ==
    /\ fs \in {Directory(n) : n \in 0..MaxFiles}
    /\ doc \in InitDocs
    /\ registry = LoadRegistry(doc)
    /\ results = [p \in Paths |-> {}]
    /\ db \in {EmptyDb, StoredAs(ModuleOf(P1, "c1"))}
    /\ upserted = EmptyMap
    /\ edits = 0
    /\ last = [op |-> "load_registry"]
    /\ dec_in = <<>>
    /\ dec_out = NotRun
    /\ run = Idle

NextBatch ==
    \/ \E m \in MaxFilesArgs : ParseDirectoryStart(m)
    \/ ProcessFile
    \/ ParseDirectoryReturn
    \/ Crash
    \/ CrashDuringFlush
    \/ LoadRegistryAgain
    \/ \E u \in BOOLEAN : BulkInsertFromParserResults(u)
    \/ (P1 \in DOMAIN fs /\ ModifyFile(P1, MISSING))
    \/ (run.phase = "done" /\ last.op = "bulk_insert" /\ ClearDatabase)

SpecBatch == InitBatch /\ [][NextBatch]_vars

\* =====================================================================
\* Properties
\* =====================================================================
RowsOf(d, unique_id) == {r \in d.pv_modules : r.unique_id = unique_id}

\* the child rows of a module, ids aside
RawOf(d, id) ==
    {[parameter_name |-> c.parameter_name, parameter_value |-> c.parameter_value]
       : c \in {x \in d.raw_pan_data : x.module_id = id}}
CertsOf(d, id) ==
    {[certification_name |-> c.certification_name, certified |-> c.certified]
       : c \in {x \in d.certifications : x.module_id = id}}

\* the row r and its child rows are exactly what module m gives
HoldsModule(d, r, m) ==
    /\ r = MakeRow(r.id, UniqueId(m), RowValues(m))
    /\ RawOf(d, r.id) = {[parameter_name |-> k, parameter_value |-> m.raw_data[k]]
                           : k \in DOMAIN m.raw_data}
    /\ Cardinality({x \in d.raw_pan_data : x.module_id = r.id}) = Cardinality(DOMAIN m.raw_data)
    /\ CertsOf(d, r.id) = {[certification_name |-> e[1], certified |-> e[2]]
                             : e \in Range(CertData(m.certification_info))}
    /\ Cardinality({x \in d.certifications : x.module_id = r.id})
         = Len(CertData(m.certification_info))

\* C1: get_new_files skips a path if and only if the registry holds an entry for
\* it whose stored hash equals the file's current hash, whose stored size equals
\* the current size and whose success flag is true; every other path of the
\* input (no entry, hash differs, size differs, prior failure, file that cannot
\* be stat'ed) is returned, in input order.
C1_SkipCondition(p) ==
    /\ fs[p] # MISSING
    /\ p \in DOMAIN registry
    /\ registry[p].file_hash = Sha256(fs[p])
    /\ registry[p].file_size = StSize(fs[p])
    /\ registry[p].success = TRUE

C1_ChangeDetection ==
    last.op = "get_new_files" =>
        /\ \A p \in Range(last.all_files) : (p \notin Range(last.ret)) <=> C1_SkipCondition(p)
        /\ Range(last.ret) \subseteq Range(last.all_files)
        /\ \A i, j \in 1..Len(last.ret) : i # j => last.ret[i] # last.ret[j]

\* C1 witness: one call that skips a path and returns another whose registry
\* entry matches hash and size but records a failure.
C1_Witness ==
    /\ last.op = "get_new_files"
    /\ \E p \in Range(last.all_files) : p \notin Range(last.ret)
    /\ \E p \in Range(last.ret) :
          /\ fs[p] # MISSING
          /\ p \in DOMAIN registry
          /\ registry[p].file_hash = Sha256(fs[p])
          /\ registry[p].file_size = StSize(fs[p])
          /\ ~registry[p].success

\* C2 (as claimed): after any sequence of insert_module(update_if_exists=True)
\* calls since the last clear, the repository holds exactly one pv_modules row
\* per unique_id upserted, and that row and its child rows are those of the most
\* recent upsert for that unique_id.
C2_UpsertByIdentity ==
    \A uid \in DOMAIN upserted :
        /\ Cardinality(RowsOf(db, uid)) = 1
        /\ \A r \in RowsOf(db, uid) : HoldsModule(db, r, upserted[uid])

\* C3 (as claimed): when a file whose record is stored is modified and then
\* re-parsed and upserted, the repository ends with exactly one record for that
\* file path, carrying the new content.
C3_ReplacedOnReparse ==
    (/\ last.op = "insert_module"
     /\ last.update_if_exists
     /\ \E r \in last.before.pv_modules :
           /\ r.file_path = last.module.file_metadata.file_path
           /\ r.file_hash # last.module.file_metadata.file_hash)
    => LET recs == {r \in db.pv_modules : r.file_path = last.module.file_metadata.file_path}
       IN /\ Cardinality(recs) = 1
          /\ \A r \in recs : r.file_hash = last.module.file_metadata.file_hash

\* C4 (as claimed): upserting the record of the same file twice in a row leaves,
\* for that unique_id, one row, the same returned id and the same row and
\* child-row values (child-row ids aside) as after the first upsert.
C4_UpsertIdempotent ==
    (last.op = "insert_module" /\ last.again) =>
        LET uid == UniqueId(last.module) IN
        /\ Cardinality(RowsOf(db, uid)) = 1
        /\ last.ret # {}
        /\ last.ret = last.prev_ret
        /\ RowsOf(db, uid) = RowsOf(last.before, uid)
        /\ \A r \in RowsOf(db, uid) :
              /\ RawOf(db, r.id) = RawOf(last.before, r.id)
              /\ CertsOf(db, r.id) = CertsOf(last.before, r.id)

C6_DerivedAsClaimed(r) ==
    IF /\ r.pmax_stc.t = "real" /\ r.height.t = "real" /\ r.width.t = "real"
       /\ r.height.n * r.width.n # 0
    THEN /\ r.area_m2 = Frac(r.height.n * r.width.n, r.height.d * r.width.d * 1000000)
         /\ r.efficiency_stc = Frac(r.pmax_stc.n * 100000 * r.height.d * r.width.d,
                                    r.pmax_stc.d * r.height.n * r.width.n)
         /\ r.power_density = Frac(r.pmax_stc.n * 1000000 * r.height.d * r.width.d,
                                   r.pmax_stc.d * r.height.n * r.width.n)
    ELSE r.area_m2 = NullV /\ r.efficiency_stc = NullV /\ r.power_density = NullV

\* C6 (as claimed): the derived columns that insert_module and update_module
\* compute for the row they write are area_m2 = height*width/1e6, efficiency_stc
\* = pmax/(area_m2*1000)*100 and power_density = pmax/area_m2 when pmax, height
\* and width are present and the area is non-zero, and three nulls otherwise.
C6_DerivedMetrics ==
    last.op = "insert_module" =>
        C6_DerivedAsClaimed(MakeRow(0, UniqueId(last.module), RowValues(last.module)))

\* the sort columns the search accepts, as the claims list them
C8_AllowList ==
    {"pmax_stc", "efficiency_stc", "voc_stc", "isc_stc", "vmp_stc", "imp_stc",
     "manufacturer", "model"}

\* a search that filters on power only
C7_PowerOnly(a) ==
    a = [DefaultArgs EXCEPT !.min_power = a.min_power, !.max_power = a.max_power,
                            !.sort_by = a.sort_by, !.sort_order = a.sort_order]

\* lo <= pmax <= hi, for the bounds that are given
C7_InRange(r, lo, hi) ==
    /\ r.pmax_stc.t = "real"
    /\ lo.k = "num" => lo.v * r.pmax_stc.d <= r.pmax_stc.n
    /\ hi.k = "num" => r.pmax_stc.n <= hi.v * r.pmax_stc.d

C7_Ordered(ret, col, desc) ==
    \A i \in 1..(Len(ret) - 1) :
        IF desc THEN ~SqlLess(ret[i][col], ret[i + 1][col])
        ELSE ~SqlLess(ret[i + 1][col], ret[i][col])

\* C7: search_modules(min_power=lo, max_power=hi) with at least one bound given
\* returns each stored row with lo <= pmax <= hi exactly once and no other row
\* (rows with NULL pmax excluded), in the order of the requested allow-listed
\* column: descending when sort_order is "desc" (any case), ascending when "asc".
C7_SearchRange ==
    (/\ last.op = "search_modules"
     /\ C7_PowerOnly(last.args)
     /\ last.args.min_power.k = "num" \/ last.args.max_power.k = "num"
     /\ last.args.sort_by.k = "str"
     /\ last.args.sort_by.v \in {<<c>> : c \in C8_AllowList}
     /\ last.args.sort_order \in {StrNode(<<"desc">>), StrNode(<<"DESC">>), StrNode(<<"asc">>)})
    => /\ last.exc = "none"
       /\ Range(last.ret) = {r \in db.pv_modules :
                               C7_InRange(r, last.args.min_power, last.args.max_power)}
       /\ \A i, j \in 1..Len(last.ret) : i # j => last.ret[i] # last.ret[j]
       /\ C7_Ordered(last.ret, last.args.sort_by.v[1],
                     last.args.sort_order # StrNode(<<"asc">>))

\* C7 witness: a search for 300..500 sorted by manufacturer ascending that
\* returned the rows with pmax 300 and pmax 500 while a row with no pmax is stored.
C7_Witness ==
    /\ last.op = "search_modules"
    /\ last.args = [DefaultArgs EXCEPT !.min_power = NumV(300), !.max_power = NumV(500),
                                       !.sort_by = StrNode(<<"manufacturer">>),
                                       !.sort_order = StrNode(<<"asc">>)]
    /\ \E r \in Range(last.ret) : r.pmax_stc = Real(300, 1)
    /\ \E r \in Range(last.ret) : r.pmax_stc = Real(500, 1)
    /\ \E r \in db.pv_modules : r.pmax_stc = NullV
    /\ last.ret[1].manufacturer # last.ret[2].manufacturer

\* C8: for a sort_by outside the allow-list (None, a column that is not listed,
\* a listed name in another case, text carrying SQL), search_modules does not
\* raise and returns what a search by pmax_stc descending returns, ordered by
\* pmax descending, whatever sort_order is; the statement issued has the fixed
\* clause ORDER BY pmax_stc DESC and is the statement issued for sort_by=None.
C8_Unlisted(sb) == sb.k = "none" \/ (sb.k = "str" /\ sb.v \notin {<<c>> : c \in C8_AllowList})

C8_SortBySafety ==
    (last.op = "search_modules" /\ C8_Unlisted(last.args.sort_by))
    => /\ last.exc = "none"
       /\ C7_Ordered(last.ret, "pmax_stc", TRUE)
       /\ last.ret \in SearchOutcome(db, [last.args EXCEPT !.sort_by = StrNode(<<"pmax_stc">>),
                                                          !.sort_order = StrNode(<<"desc">>)]).rows
       /\ C7_PowerOnly(last.args) =>
             Range(last.ret) = {r \in db.pv_modules :
                                  /\ last.args.min_power.k = "num" => C7_InRange(r, last.args.min_power, NoneV)
                                  /\ last.args.max_power.k = "num" => C7_InRange(r, NoneV, last.args.max_power)}
       /\ \A i \in 1..Len(last.query) :
             last.query[i][1] = " ORDER BY" => last.query[i] = <<" ORDER BY", "pmax_stc", "DESC">>
       /\ \E i \in 1..Len(last.query) : last.query[i][1] = " ORDER BY"
       /\ last.query = SearchQuery([last.args EXCEPT !.sort_by = NoneV]).query

\* C8 witness: a search with SQL text as sort_by and sort_order "asc" that
\* returned two rows, the higher power first.
C8_Witness ==
    /\ last.op = "search_modules"
    /\ last.args.sort_by = StrNode(<<"pmax_stc; DROP TABLE pv_modules">>)
    /\ last.args.sort_order = StrNode(<<"asc">>)
    /\ last.exc = "none"
    /\ Len(last.ret) >= 2
    /\ SqlLess(last.ret[2].pmax_stc, last.ret[1].pmax_stc)

RECURSIVE SumOver(_, _)
SumOver(f, keys) ==
    IF keys = {} THEN 0
    ELSE LET k == CHOOSE x \in keys : TRUE IN f[k] + SumOver(f, keys \ {k})

\* C9: in every repository state reached by inserts, updates and clears, the
\* counts of get_statistics()['cell_type_distribution'] sum to
\* get_statistics()['total_modules'].
C9_StatisticsConsistent ==
    /\ SumOver(Statistics(db).cell_type_distribution,
               DOMAIN Statistics(db).cell_type_distribution) = Statistics(db).total_modules
    /\ last.op = "get_statistics" =>
          SumOver(last.ret.cell_type_distribution, DOMAIN last.ret.cell_type_distribution)
              = last.ret.total_modules

\* C9 witness: statistics taken of three stored modules of two cell types.
C9_Witness ==
    /\ last.op = "get_statistics"
    /\ last.ret.total_modules = 3
    /\ Cardinality(DOMAIN last.ret.cell_type_distribution) = 2

\* C11 (as claimed): whenever a file decodes to a non-empty tree (manufacturer
\* and model are then always available, from the path at least), parse_file
\* returns a record: no value of another field makes the mapping fail.
C11_OnlyIdentityFatal ==
    (/\ last.op = "parse_file"
     /\ fs[last.path] # MISSING
     /\ DecodedText[fs[last.path]].tree # EmptyDict)
    => last.result.success

\* the successful result of the parse before the last one, of the same path
C12_Earlier == {r \in last.before : r.success}

\* C12 (as claimed): a file parsed again after its content changed gets a
\* different unique_id.
C12_ChangedContentChangesId ==
    (last.op = "parse_file" /\ last.result.success)
    => \A r \in C12_Earlier :
          r.module.file_metadata.file_hash # last.result.module.file_metadata.file_hash
          => UniqueId(r.module) # UniqueId(last.result.module)

\* C12 (amended): unique_id is manufacturer, model and the first 8 hex
\* characters of the content hash joined by "_"; a file parsed again with the
\* same bytes gets the same unique_id, and parsed after a change that alters
\* the first 8 hex characters of its hash gets a different one.
C12_UniqueIdDeterminism ==
    (last.op = "parse_file" /\ last.result.success)
    => LET m == last.result.module IN
       /\ UniqueId(m) = PyStr(m.manufacturer_info.name) \o <<"_">>
                          \o PyStr(m.manufacturer_info.model) \o <<"_">>
                          \o <<Sha256(fs[last.path])[1]>>
       /\ \A r \in C12_Earlier :
             /\ r.module.file_metadata.file_hash = m.file_metadata.file_hash
                  => UniqueId(r.module) = UniqueId(m)
             /\ r.module.file_metadata.file_hash[1] # m.file_metadata.file_hash[1]
                  => UniqueId(r.module) # UniqueId(m)

\* C12 witness: a file parsed, rewritten so that the first 8 hex characters of
\* its hash change, and parsed again.
C12_Witness ==
    /\ last.op = "parse_file"
    /\ last.result.success
    /\ \E r \in C12_Earlier :
          r.module.file_metadata.file_hash[1] # last.result.module.file_metadata.file_hash[1]

\* C13: after every call to parse_file, whether it succeeded or failed (file
\* unreadable, empty decoded tree, or mapping raised), the registry holds an
\* entry for that path whose success flag and error message are those of
\* this attempt.
C13_RegistryUpdatedAfterAttempt ==
    last.op = "parse_file"
    => /\ last.path \in DOMAIN registry
       /\ registry[last.path].success = last.result.success
       /\ registry[last.path].error_message =
             (IF last.result.success THEN "" ELSE last.result.error_message)

\* C14: whatever the registry document holds (missing, unreadable, not valid
\* JSON, or valid JSON with one malformed entry), after load_registry the
\* registry in memory is either empty or the complete set of the stored
\* entries, never a part of them; and with an empty registry get_new_files
\* returns every file of the directory.
C14_Complete ==
    /\ doc.kind = "object"
    /\ DOMAIN registry = DOMAIN doc.data
    /\ \A k \in DOMAIN registry : DumpEntry(registry[k]) = doc.data[k]

C14_RegistryLoadAllOrNothing ==
    last.op = "load_registry"
    => /\ registry = EmptyMap \/ C14_Complete
       /\ registry = EmptyMap
             => SelectSeq(ScanDirectory, NeedsProcessing) = ScanDirectory

\* a document with a malformed entry next to a well-formed one was loaded,
\* and some file is in the directory
C14_Witness ==
    /\ last.op = "load_registry"
    /\ doc.kind = "object"
    /\ \E k \in DOMAIN doc.data : ValidateEntry(doc.data[k]) = {}
    /\ \E k \in DOMAIN doc.data : ValidateEntry(doc.data[k]) # {}
    /\ registry = EmptyMap
    /\ ScanDirectory # <<>>

\* C15: if a parse_directory run crashes at any point, a crash during a
\* flush included, reloading the registry document loses at most FlushEvery
\* of the entries that were in memory at the crash, and every entry that
\* an earlier flush had put in the document is still loaded.
C15_Lost ==
    {p \in DOMAIN last.memory :
        p \notin DOMAIN LoadRegistry(doc) \/ LoadRegistry(doc)[p] # last.memory[p]}

C15_BoundedLossOnCrash ==
    last.op = "crash"
    => /\ Cardinality(C15_Lost) <= FlushEvery
       /\ \A p \in DOMAIN last.on_disk : p \in DOMAIN LoadRegistry(doc)

\* C16: parse_directory returns one result for every file it scheduled,
\* whatever files failed on the way, and bulk_insert_from_parser_results
\* counts every result exactly once: inserted + updated + skipped + failed
\* = total = the number of results.
C16_BatchAccounting ==
    /\ last.op = "parse_directory"
          => DOMAIN last.ret = {last.scheduled[i] : i \in 1..Len(last.scheduled)}
    /\ last.op = "bulk_insert"
          => /\ last.ret.total = Cardinality(DOMAIN last.results)
             /\ last.ret.inserted + last.ret.updated + last.ret.skipped + last.ret.failed
                   = last.ret.total

\* a batch with a failed parse, a module that is already stored and one that
\* is not
C16_Witness ==
    /\ last.op = "bulk_insert"
    /\ last.ret.total >= 3
    /\ \E p \in DOMAIN last.results : ~last.results[p].success
    /\ \E p \in DOMAIN last.results :
          last.results[p].success /\ ModuleExists(db, UniqueId(last.results[p].module))
    /\ \E p \in DOMAIN last.results :
          last.results[p].success /\ ~ModuleExists(db, UniqueId(last.results[p].module))

\* C17: insert_module(module, update_if_exists=False) for a unique_id that
\* already exists raises DuplicateError instead of returning a module id,
\* and leaves the stored row and its child rows unchanged.
C17_ForcedInsertRaisesDuplicate ==
    (/\ last.op = "insert_module"
     /\ ~last.update_if_exists
     /\ ModuleExists(last.before, UniqueId(last.module)))
    => /\ last.exc = "DuplicateError"
       /\ last.ret = {}
       /\ db = last.before

\* C18: after clear_database no unique_id exists, search and statistics see
\* zero modules and the certifications and raw_pan_data tables are empty;
\* and the upsert that follows the clear inserts its record as new.
C18_Cleared ==
    /\ \A p \in Paths, c \in Contents :
          MappedText[p][c].raised = "none" => ~ModuleExists(db, UniqueId(ModuleOf(p, c)))
    /\ LET out == SearchOutcome(db, DefaultArgs) IN out.exc = "none" /\ out.rows = {<<>>}
    /\ Statistics(db).total_modules = 0
    /\ db.certifications = {}
    /\ db.raw_pan_data = {}

C18_InsertedAsNew ==
    /\ last.exc = "none"
    /\ Cardinality(db.pv_modules) = 1
    /\ \A r \in RowsOf(db, UniqueId(last.module)) : HoldsModule(db, r, last.module)
    /\ Cardinality(RowsOf(db, UniqueId(last.module))) = 1

C18_ClearReturnsToAbsent ==
    /\ last.op = "clear_database" => C18_Cleared
    /\ (/\ last.op = "insert_module"
        /\ last.update_if_exists
        /\ last.after_clear
        /\ last.exc # "sqlite3.OperationalError")
       => C18_InsertedAsNew

\* C19: for every input parse_pan_structure returns the tree of the
\* reference stack algorithm: 'PVObject_<Name>=<Type>' opens a block tagged
\* <Type>, stored under <Name> in the current block, and makes it current;
\* an end marker makes the enclosing block current; any other line with '='
\* is split on the first '=' into key and value and stored in the current
\* block, as the list of the comma-separated parts when the value holds a
\* comma and as a scalar otherwise; a later occurrence of a key in a block
\* overwrites the earlier one.
\* The reference keeps a stack of open blocks, each a name and the fields
\* read so far, and stores a block in its parent when the block is closed.
C19_Put(fields, key, node) ==
    [x \in (DOMAIN fields) \cup {key} |-> IF x = key THEN node ELSE fields[x]]

C19_Close(frames) ==
    LET n == Len(frames) IN
    SubSeq(frames, 1, n - 2)
      \o <<[name |-> frames[n - 1].name,
            fields |-> C19_Put(frames[n - 1].fields, frames[n].name,
                               DictNode(frames[n].fields))]>>

C19_Value(value) ==
    IF Contains(value, COMMA)
    THEN LET parts == SplitAll(value, COMMA) IN
         ListNode([i \in 1..Len(parts) |-> Strip(parts[i])])
    ELSE StrNode(value)

C19_Step(frames, line) ==
    LET s == Strip(line)
        n == Len(frames)
    IN
    IF s = <<>> THEN frames
    ELSE IF Head(s) = PFX
    THEN IF ~Contains(s, EQ) THEN frames
         ELSE LET i == FirstIndex(s, EQ) IN
              Append(frames,
                     [name |-> SubSeq(s, 2, i - 1),
                      fields |-> C19_Put(EmptyDict, TYPEKEY,
                                         StrNode(SubSeq(s, i + 1, Len(s))))])
    ELSE IF Head(s) = ENDMARK
    THEN IF n > 1 THEN C19_Close(frames) ELSE frames
    ELSE IF Contains(s, EQ)
    THEN LET i == FirstIndex(s, EQ) IN
         [frames EXCEPT ![n].fields =
             C19_Put(@, Strip(SubSeq(s, 1, i - 1)),
                     C19_Value(Strip(SubSeq(s, i + 1, Len(s)))))]
    ELSE frames

RECURSIVE C19_Run(_, _)
C19_Run(frames, lines) ==
    IF lines = <<>> THEN frames ELSE C19_Run(C19_Step(frames, Head(lines)), Tail(lines))

RECURSIVE C19_Finish(_)
C19_Finish(frames) ==
    IF Len(frames) = 1 THEN frames[1].fields ELSE C19_Finish(C19_Close(frames))

C19_Reference(lines) ==
    C19_Finish(C19_Run(<<[name |-> <<>>, fields |-> EmptyDict]>>, lines))

C19_DecoderStructure ==
    dec_out # NotRun
    => /\ dec_out.raised = "none"
       /\ dec_out.tree = C19_Reference(dec_in)

\* a text that opens a block and sets the same key twice in it
C19_Witness ==
    /\ dec_out # NotRun
    /\ Len(dec_in) = 3
    /\ dec_in[1] = <<PFX, "A", EQ, "T">>
    /\ dec_in[2] = <<"K", EQ, "v">>
    /\ dec_in[3] = <<"K", SP, EQ, SP, "w", EQ, "z">>
    /\ dec_out.tree[<<"A">>].v[<<"K">>] = StrNode(<<"w", EQ, "z">>)

\* C20: when the source value of a mapped numeric field cannot be parsed as
\* a number, the attribute of the record stays None: in the record a
\* successful parse_file returns, every numeric attribute is None or a
\* number, never a text.
C20_NumericAttrs(m) ==
    {m.electrical_params.pmax_stc, m.electrical_params.vmp_stc, m.electrical_params.imp_stc,
     m.electrical_params.voc_stc, m.electrical_params.isc_stc,
     m.electrical_params.bifaciality_factor,
     m.physical_params.height, m.physical_params.width}

C20_NumericFailureLeavesUnset ==
    (last.op = "parse_file" /\ last.result.success)
    => \A v \in C20_NumericAttrs(last.result.module) : v.k \in {"none", "num"}

\* C21: when muVocSpec parses to a number c, the record's temp_coeff_voc is
\* c * 0.1 / voc_stc when voc_stc is a (non-zero) number, the factor 0.1 applied
\* once, and is c itself when voc_stc is absent.
C21_VocCoefficientConversion ==
    (/\ dec_out # NotRun
     /\ dec_out.raised = "none"
     /\ <<"muVocSpec">> \in DOMAIN MapperRoot
     /\ ParseNumericValue(MapperRoot[<<"muVocSpec">>]) # NoneV)
    => LET c == ParseNumericValue(MapperRoot[<<"muVocSpec">>])
           voc == dec_out.module.electrical_params.voc_stc
           tc == dec_out.module.electrical_params.temp_coeff_voc
       IN /\ (voc.k = "num" /\ voc.v # 0) => tc = Quot(c.v * Den(voc), 10 * voc.v)
          /\ voc.k = "none" => tc = c

\* C22: for every i in 1..9, a well-formed Point_i entry 'angle, value' of the
\* IAM block is stored under the attribute of the angle 5*(i-1); a malformed
\* entry leaves its own attribute unset.
C22_WellFormed(node) ==
    node.k = "list" /\ Len(node.v) >= 2 /\ Strip(node.v[2]) \in NumericTexts

C22_IamProfileStored ==
    (/\ dec_out # NotRun
     /\ dec_out.raised = "none"
     /\ <<"IAM">> \in DOMAIN MapperRoot
     /\ MapperRoot[<<"IAM">>].k = "dict")
    => LET iam == MapperRoot[<<"IAM">>].v
           stored == dec_out.module.electrical_params.iam
       IN \A i \in 1..9 :
            <<PointKeys[i]>> \in DOMAIN iam =>
                IF C22_WellFormed(iam[<<PointKeys[i]>>])
                THEN /\ 5 * (i - 1) \in DOMAIN stored
                     /\ stored[5 * (i - 1)] = NumV(FloatOf(Strip(iam[<<PointKeys[i]>>].v[2])))
                ELSE 5 * (i - 1) \in DOMAIN stored => stored[5 * (i - 1)] = NoneV

\* C23: in every record map_pan_data produces, total_cells equals
\* cells_in_series * cells_in_parallel when both NCelS and NCelP were parsed as
\* numbers, and is unset otherwise.
C23_TotalCellsDerived ==
    (dec_out # NotRun /\ dec_out.raised = "none")
    => LET ph == dec_out.module.physical_params IN
       IF ph.cells_in_series.k = "num" /\ ph.cells_in_parallel.k = "num"
       THEN ph.total_cells = NumV(ph.cells_in_series.v * ph.cells_in_parallel.v)
       ELSE ph.total_cells = NoneV

\* C24: for every key of the mapping table present both in the nested
\* Commercial block and at the root of the tree, the attribute of the record
\* holds the value derived from the root entry; for a key present in only one
\* of the two places, the value derived from that place (for temp_coeff_voc,
\* through the conversion that follows the table).
C24_Attr(m, attr) ==
    IF attr \in DOMAIN m.manufacturer_info THEN m.manufacturer_info[attr]
    ELSE IF attr \in DOMAIN m.physical_params THEN m.physical_params[attr]
    ELSE m.electrical_params[attr]

C24_Converted(attr, node) ==
    IF ParseNumericValue(node) # NoneV
    THEN Quot(ParseNumericValue(node).v * UnitFactor(attr), UnitDivisor(attr))
    ELSE node

C24_Derived(attr, node) ==
    IF attr # "temp_coeff_voc" THEN C24_Converted(attr, node)
    ELSE VocConversion([temp_coeff_voc |-> C24_Converted(attr, node),
                        voc_stc |-> dec_out.module.electrical_params.voc_stc,
                        exc |-> "none"]).temp_coeff_voc

C24_Commercial ==
    IF <<"Commercial">> \in DOMAIN MapperRoot THEN MapperRoot[<<"Commercial">>].v ELSE EmptyDict

C24_RootOverCommercial ==
    (/\ dec_out # NotRun
     /\ dec_out.raised = "none"
     /\ <<"Commercial">> \in DOMAIN MapperRoot => MapperRoot[<<"Commercial">>].k = "dict")
    => \A i \in 1..Len(FIELD_MAPPING) :
         LET key == <<FIELD_MAPPING[i][1]>>
             attr == FIELD_MAPPING[i][2]
         IN /\ key \in DOMAIN MapperRoot
               => C24_Attr(dec_out.module, attr) = C24_Derived(attr, MapperRoot[key])
            /\ (key \notin DOMAIN MapperRoot /\ key \in DOMAIN C24_Commercial)
               => C24_Attr(dec_out.module, attr) = C24_Derived(attr, C24_Commercial[key])

\* a text with Width in both places (different values) and Model in Commercial only
C24_Witness ==
    /\ dec_out # NotRun
    /\ dec_out.raised = "none"
    /\ <<"Width">> \in DOMAIN MapperRoot
    /\ <<"Width">> \in DOMAIN C24_Commercial
    /\ <<"Model">> \in DOMAIN C24_Commercial
    /\ MapperRoot[<<"Width">>] # C24_Commercial[<<"Width">>]
    /\ dec_out.module.physical_params.width = NumV(1000)
    /\ dec_out.module.manufacturer_info.model = StrNode(<<"X">>)

\* C25: whatever the Technol entry is (a known code, an unknown code, absent,
\* or a value with a comma, decoded as a list), map_pan_data does not fail and
\* gives the record a cell type of the enumeration: the table's type for a code
\* of the table, unknown for every other value.
C25_CellTypes ==
    {"monocrystalline", "polycrystalline", "thin_film", "cis", "cigs", "cdte", "perc",
     "bifacial", "hjt", "ibc", "unknown"}

C25_Codes == {<<"mtSiMono">>, <<"mtSiPoly">>, <<"mtCIS">>, <<"mtCdTe">>}

\* the texts in which nothing but the Technol entry could make the mapping fail
C25_OnlyTechnol ==
    \A key \in DOMAIN MapperRoot :
        key \in {TYPEKEY, <<"Technol">>, <<"Height">>, <<"Width">>, <<"NCelS">>, <<"Voc">>}

C25_TechnologyTotal ==
    (dec_out # NotRun /\ C25_OnlyTechnol)
    => /\ dec_out.raised = "none"
       /\ dec_out.module.cell_type \in C25_CellTypes
       /\ (<<"Technol">> \notin DOMAIN MapperRoot
             \/ MapperRoot[<<"Technol">>].k # "str"
             \/ MapperRoot[<<"Technol">>].v \notin C25_Codes)
          => dec_out.module.cell_type = "unknown"

\* C26: a numeric value written with a decimal comma, here the line
\* Height=1,134 (the only Height line of the text), is stored as the decimal
\* number 1.134, that is 1134 after the conversion of heights to millimetres,
\* not as the number before the comma.
C26_Line == <<"Height", EQ, "1", COMMA, "134">>

C26_CommaDecimal ==
    (/\ dec_out # NotRun
     /\ dec_out.raised = "none"
     /\ \E i \in 1..Len(dec_in) : dec_in[i] = C26_Line
     /\ \A j \in 1..Len(dec_in) : dec_in[j][1] = "Height" => dec_in[j] = C26_Line)
    => dec_out.module.physical_params.height = Quot(1134 * UnitFactor("height"), 1000)

\* C27: once the results of parse_directory went through
\* bulk_insert_from_parser_results, and after a clear_database that follows,
\* every file of that run which get_new_files now skips (registry entry
\* successful, hash and size those of the file) has a record for its current
\* content in the repository.
C27_Skipped(p) == fs[p] # MISSING /\ UnchangedAndProcessed(p)

C27_SkippedFilesAreStored ==
    (run.phase = "done" /\ last.op \in {"bulk_insert", "clear_database"})
    => \A p \in DOMAIN fs \cap DOMAIN run.results :
         C27_Skipped(p)
         => /\ MappedText[p][fs[p]].raised = "none"
            /\ ModuleExists(db, UniqueId(ModuleOf(p, fs[p])))

\* C28: with the file rewritten at any point while parse_file runs, a registry
\* entry written with success = true holds the hash and the size of the content
\* that this call read, decoded and mapped.
C28_FingerprintOfParsedContent ==
    (last.op = "parse_file" /\ last.result.success)
    => /\ registry[last.path].success
       /\ registry[last.path].file_hash = Sha256(last.read)
       /\ registry[last.path].file_size = StSize(last.read)

\* C29: with the default bin size, the counts of the bins returned by
\* get_power_range_distribution sum to the number of rows with a non-NULL
\* pmax_stc, and those of get_efficiency_range_distribution to the number of
\* rows with a non-NULL efficiency_stc.
C29_Counted(bins) == SumOver([i \in 1..Len(bins) |-> bins[i].count], 1..Len(bins))

C29_BinsLoseNoValue ==
    /\ last.op = "get_power_range_distribution"
         => C29_Counted(last.ret) = Cardinality(NonNull(db, "pmax_stc"))
    /\ last.op = "get_efficiency_range_distribution"
         => C29_Counted(last.ret) = Cardinality(NonNull(db, "efficiency_stc"))

\* C30: in every state reached by insert_module, update_module and
\* clear_database calls, every certifications row and every raw_pan_data row
\* carries the id of an existing pv_modules row, and find_orphaned_records
\* returns the empty list.
C30_NoOrphanedRows ==
    /\ \A c \in db.certifications \cup db.raw_pan_data :
          \E m \in db.pv_modules : m.id = c.module_id
    /\ last.op = "find_orphaned_records" => last.ret = <<>>

\* find_orphaned_records called on a repository holding child rows, after an
\* upsert was attempted
C30_Witness ==
    /\ last.op = "find_orphaned_records"
    /\ last.ret = <<>>
    /\ db.raw_pan_data # {}
    /\ upserted # EmptyMap

\* C10: parse_pan_structure returns a tree and never raises, whatever the
\* lines: a block-open line without '=' and a line without '=' are ignored (the
\* result is the same with such a line put anywhere in the text), and an end
\* marker met with no open block leaves the current block as it is.
C10_Junk == <<"junk">>
C10_OpenNoEq == <<PFX, "A">>
C10_End == <<ENDMARK, SP, "A">>

InsertAt(q, i, x) == SubSeq(q, 1, i) \o <<x>> \o SubSeq(q, i + 1, Len(q))

C10_DecoderTolerant ==
    dec_out # NotRun =>
        /\ dec_out.raised = "none"
        /\ \A i \in 0..Len(dec_in) :
              /\ ParsePanStructure(InsertAt(dec_in, i, C10_Junk)) = dec_out
              /\ ParsePanStructure(InsertAt(dec_in, i, C10_OpenNoEq)) = dec_out
        /\ ParsePanStructure(<<C10_End>> \o dec_in) = dec_out
        /\ dec_out.stack = <<>> => ParsePanStructure(Append(dec_in, C10_End)) = dec_out

\* C10 witness: a decoded text that starts with an end marker while no block is
\* open, goes on with a block-open line without '=' and ends inside a block
\* that is never closed.
C10_Witness ==
    /\ dec_out # NotRun
    /\ dec_out.raised = "none"
    /\ Len(dec_in) = 3
    /\ StartsWith(dec_in[1], ENDMARK)
    /\ dec_in[2] = C10_OpenNoEq
    /\ dec_out.stack # <<>>

====
